---------------------------- MODULE Spec2Model ----------------------------
(***************************************************************************)
(* A model of the txtrpg core: the attribute observer system               *)
(* (rpg/data/attributes.py), the Resources registry                        *)
(* (rpg/data/resources.py), the package loader and the package list        *)
(* (rpg/io/package.py, rpg/app.py), the ViewManager stack                  *)
(* (rpg/ui/views.py), the paged option lists (rpg/ui/options.py) and the   *)
(* GameData state machine (rpg/state.py).                                  *)
(*                                                                         *)
(* Each subsystem has its own variables, its own initial predicate and its *)
(* own next-state relations; a subsystem specification (SpecAttr, SpecRes, *)
(* SpecLoad, SpecView, SpecGame, ...) runs one subsystem and holds the     *)
(* others still.                                                           *)
(***************************************************************************)
EXTENDS Integers, Sequences, FiniteSets, TLC

VARIABLES
    prim,        \* PrimaryAttribute objects: name -> [level, value, listeners]
    sec,         \* SecondaryAttribute objects: name -> [level, value, effective, tracked]
    attrCall,    \* the last attribute operation and the values it found
    delivered,   \* the update(attr, msg) calls made by the last operation
    resMap,      \* Resources objects: collection -> ResourceType -> ordered dict
    objPkg,      \* Resource objects: object -> its _package
    pkgName,     \* Package._name of the Package that holds the collection "pkg"
    resCall,     \* the last Resources operation, what it found and its outcome
    packages,    \* Game._packages: the Package objects, in the order loaded
    loadCall,    \* the last _load_packages or build_resources call and its
                 \* outcome
    viewStack,   \* ViewManager._stack, bottom first: the names of the views
    viewLife,    \* View objects: name -> where the view is in its life cycle
    viewPacked,  \* the View objects packed into the root window
    root,        \* Game._root is set
    returnValue, \* Game._return_value
    gamePhase,   \* where Game.run is: not called yet, in mainloop, or returned
    runResult,   \* the value Game.run returned
    quitLog,     \* the Game.quit calls made: the argument, and whether a root
                 \* window existed
    viewCall,    \* the last ViewManager operation, the stack it found and the
                 \* calls it made
    gameData,    \* GameData: [state, location, dialog, monster, add_loc_text]
    gameFrames,  \* the set_location calls waiting in Location.start, outermost
                 \* first: the instance each looked up
    gameCall,    \* the outermost GameData call under way or last made: what it
                 \* was given and the hooks, displays and errors since it began
    optInput,    \* how many options generate_paged_list is handed
    optLists,    \* the OptionList objects generate_paged_list built, first first
    optShown     \* the OptionList the GameView shows: its place in optLists, 0
                 \* while the displayable's own options are shown

attrVars == <<prim, sec, attrCall, delivered>>

resVars == <<resMap, objPkg, pkgName, resCall>>

viewVars == <<viewStack, viewLife, viewPacked, root, returnValue, gamePhase,
              runResult, quitLog, viewCall>>

gameVars == <<gameData, gameFrames, gameCall>>

optVars == <<optInput, optLists, optShown>>

loadVars == <<packages, loadCall>>

vars == <<prim, sec, attrCall, delivered, resMap, objPkg, pkgName, resCall,
          viewStack, viewLife, viewPacked, root, returnValue, gamePhase,
          runResult, quitLog, viewCall,
          gameData, gameFrames, gameCall, optInput, optLists, optShown,
          packages, loadCall>>

\* What the operations of one subsystem leave alone
notAttr == <<resVars, viewVars, gameVars, optVars, loadVars>>

notRes == <<attrVars, viewVars, gameVars, optVars, loadVars>>

notView == <<attrVars, resVars, gameVars, optVars, loadVars>>

notGame == <<attrVars, resVars, viewVars, optVars, loadVars>>

notOpt == <<attrVars, resVars, viewVars, gameVars, loadVars>>

\* Game._load_packages and Game.build_resources leave the Package under
\* test and the last Resources call alone
notLoad == <<attrVars, viewVars, gameVars, optVars, pkgName, resCall>>

\* Python's None
None == "None"

Max(a, b) == IF a >= b THEN a ELSE b

Min(a, b) == IF a <= b THEN a ELSE b

(***************************************************************************)
(*                        rpg/data/attributes.py                           *)
(***************************************************************************)

\* Largest level or value handed to a primary attribute
MaxLevel == 1
\* Largest base level of a secondary attribute
MaxBase == 1

\* The primaries and the secondary of test_secondary_attribute_tracked_change
Prims == {"attr_1", "attr_2"}

Secs == {"attr"}

\* Listeners that only record the calls they get (the tests' MagicMock)
Mocks == {"mock_1"}

\* The messages handed to notify: the one a secondary acts on, and the test's
Msgs == {"level", "test"}

\* Attribute.__init__: the value defaults to the level
Attribute(level, value) ==
    [level |-> level, value |-> IF value = None THEN level ELSE value]

\* Attribute.set_level without the floor at zero
AttributeSetLevelNoClamp(a, new_value) ==
    LET difference == new_value - a.level
    IN  [a EXCEPT !.level = @ + difference, !.value = @ + difference]

\* Attribute.set_level: the level never falls below zero, the value moves
\* with it
AttributeSetLevel(a, new_value) ==
    LET diff0 == new_value - a.level
        difference == IF diff0 < 0 THEN Max(-a.level, diff0) ELSE diff0
    IN  [a EXCEPT !.level = @ + difference, !.value = @ + difference]

\* Attribute.set_value
AttributeSetValue(a, new_value) == [a EXCEPT !.value = new_value]

\* Attribute.ColorNormal, ColorAbove, ColorBelow
ColorNormal == "black"
ColorAbove == "green"
ColorBelow == "red"

\* Attribute.color
AttributeColor(a) ==
    IF a.level = a.value THEN ColorNormal
    ELSE IF a.value > a.level THEN ColorAbove
    ELSE ColorBelow

\* "{}".format(n) and str(n)
Str(n) == ToString(n)

\* "{:+}".format(n): the sign is always written
StrSigned(n) == IF n >= 0 THEN "+" \o ToString(n) ELSE ToString(n)

\* Attribute.string that formats the difference as "{}"
AttributeStringNoSign(a, short) ==
    IF short \/ a.level = a.value THEN Str(a.value)
    ELSE Str(a.value) \o " [" \o Str(a.value - a.level) \o "]"

\* Attribute.string: "{} [{:+}]".format(value, value - level)
AttributeString(a, short) ==
    IF short \/ a.level = a.value THEN Str(a.value)
    ELSE Str(a.value) \o " [" \o StrSigned(a.value - a.level) \o "]"

\* PrimaryAttribute.__init__
PrimaryAttribute(level, value) ==
    [level |-> Attribute(level, value).level,
     value |-> Attribute(level, value).value,
     listeners |-> <<>>]

\* PrimaryAttribute.add
PrimaryAdd(pr, p, listener) ==
    [pr EXCEPT ![p].listeners = Append(@, listener)]

\* sum(amount * attribute.level for amount, attribute in tracked)
RECURSIVE TrackedSum(_, _)
TrackedSum(tracked, pr) ==
    IF tracked = <<>> THEN 0
    ELSE Head(tracked)[1] * pr[Head(tracked)[2]].level
         + TrackedSum(Tail(tracked), pr)

\* SecondaryAttribute.update with the base level left out of the new level
SecondaryUpdateNoBase(s, pr, msg) ==
    IF msg # "level" THEN s
    ELSE LET new_value == TrackedSum(s.tracked, pr)
             difference == new_value - s.effective
         IN  [s EXCEPT !.effective = new_value,
                       !.value = IF difference > 0 THEN @ + difference
                                 ELSE IF @ > new_value THEN new_value ELSE @]

\* SecondaryAttribute.update
SecondaryUpdate(s, pr, msg) ==
    IF msg # "level" THEN s
    ELSE LET new_value == s.level + TrackedSum(s.tracked, pr)
             difference == new_value - s.effective
         IN  [s EXCEPT !.effective = new_value,
                       !.value = IF difference > 0 THEN @ + difference
                                 ELSE IF @ > new_value THEN new_value ELSE @]

\* The loop of SecondaryAttribute.__init__: register with every tracked
\* primary, in order
RECURSIVE RegisterTracked(_, _, _)
RegisterTracked(pr, name, tracked) ==
    IF tracked = <<>> THEN pr
    ELSE RegisterTracked(PrimaryAdd(pr, Head(tracked)[2], name), name,
                         Tail(tracked))

\* SecondaryAttribute.__init__: the object built
SecondaryAttribute(level, value, tracked, pr) ==
    LET effective == level + TrackedSum(tracked, pr)
    IN  [level |-> level,
         value |-> IF value = None THEN effective ELSE value,
         effective |-> effective,
         tracked |-> tracked]

\* SecondaryAttribute.level setter without the floor at the base level
SecondarySetLevelNoClamp(s, new_value) ==
    LET difference == new_value - s.effective
        effective == s.effective + difference
    IN  [s EXCEPT !.level = @ + difference,
                  !.effective = effective,
                  !.value = IF difference > 0 \/ @ > effective
                            THEN @ + difference ELSE @]

\* SecondaryAttribute.level setter
SecondarySetLevel(s, new_value) ==
    LET diff0 == new_value - s.effective
        difference == IF diff0 < 0 THEN Max(-s.level, diff0) ELSE diff0
        effective == s.effective + difference
    IN  [s EXCEPT !.level = @ + difference,
                  !.effective = effective,
                  !.value = IF difference > 0 \/ @ > effective
                            THEN @ + difference ELSE @]

\* SecondaryAttribute.ThresholdGood, ThresholdOkay, ThresholdPoor,
\* ThresholdHurt (1.0, 0.75, 0.5, 0.25), in quarters
ThresholdGood == 4
ThresholdOkay == 3
ThresholdPoor == 2
ThresholdHurt == 1

\* SecondaryAttribute.ColorBuffed, ColorGood, ColorOkay, ColorPoor, ColorHurt
ColorBuffed == "cyan"
ColorGood == "green"
ColorOkay == "yellow"
ColorPoor == "orange"
ColorHurt == "red"

\* float(value) / float(level) > threshold, for a level above zero
RatioAbove(value, level, threshold) == 4 * value > threshold * level

\* SecondaryAttribute.color: the ratio is taken to self._level, and the
\* division raises when that is zero
SecondaryColor(s) ==
    IF s.level = 0 THEN [ret |-> None, raised |-> "ZeroDivisionError"]
    ELSE [ret |-> IF RatioAbove(s.value, s.level, ThresholdGood)
                  THEN ColorBuffed
                  ELSE IF RatioAbove(s.value, s.level, ThresholdOkay)
                  THEN ColorGood
                  ELSE IF RatioAbove(s.value, s.level, ThresholdPoor)
                  THEN ColorOkay
                  ELSE IF RatioAbove(s.value, s.level, ThresholdHurt)
                  THEN ColorPoor
                  ELSE ColorHurt,
          raised |-> None]

\* One listener.update(attr, msg) call as the listener sees it
Delivery(listener, p, msg, pr) ==
    [listener |-> listener, attr |-> p, msg |-> msg,
     level |-> pr[p].level, value |-> pr[p].value]

\* PrimaryAttribute.notify from listener i on: the secondaries after the
\* calls and the calls made
RECURSIVE NotifyFrom(_, _, _, _, _, _)
NotifyFrom(i, pr, sc, p, msg, calls) ==
    IF i > Len(pr[p].listeners) THEN [sec |-> sc, calls |-> calls]
    ELSE LET listener == pr[p].listeners[i]
             sc2 == IF listener \in DOMAIN sc
                    THEN [sc EXCEPT ![listener] = SecondaryUpdate(@, pr, msg)]
                    ELSE sc
         IN  NotifyFrom(i + 1, pr, sc2, p, msg,
                        Append(calls, Delivery(listener, p, msg, pr)))

\* PrimaryAttribute.notify
Notify(pr, sc, p, msg) ==
    LET r == NotifyFrom(1, pr, sc, p, msg, <<>>)
    IN  [prim |-> pr, sec |-> r.sec, calls |-> r.calls]

\* PrimaryAttribute.set_level that tells the listeners before it assigns
PrimarySetLevelNotifyFirst(pr, sc, p, new_value) ==
    LET r == Notify(pr, sc, p, "level")
    IN  [r EXCEPT !.prim = [pr EXCEPT ![p] = [AttributeSetLevel(pr[p], new_value)
              EXCEPT !.listeners = pr[p].listeners]]]

\* PrimaryAttribute.set_level
PrimarySetLevel(pr, sc, p, new_value) ==
    Notify([pr EXCEPT ![p] = AttributeSetLevel(@, new_value)], sc, p, "level")

\* PrimaryAttribute.set_value
PrimarySetValue(pr, sc, p, new_value) ==
    Notify([pr EXCEPT ![p] = AttributeSetValue(@, new_value)], sc, p, "value")

\* The tracked arguments tried: the test's ((7, attr_1), (3, attr_2)), one
\* pair alone, and one primary tracked twice
TrackedChoices ==
    {<<<<7, "attr_1">>, <<3, "attr_2">>>>,
     <<<<3, "attr_2">>>>,
     <<<<7, "attr_1">>, <<3, "attr_1">>>>}

\* The Resource objects the package scripts define
Objs == {"loc_a", "loc_a2", "loc_b", "dlg_a"}

NoAttrCall ==
    [op |-> "init", attr |-> None, arg |-> 0, msg |-> None,
     oldLevel |-> 0, oldValue |-> 0, ret |-> None, raised |-> None]

AttrCall(op, a, arg, msg, old) ==
    [op |-> op, attr |-> a, arg |-> arg, msg |-> msg,
     oldLevel |-> old.level, oldValue |-> old.value, ret |-> None,
     raised |-> None]

\* Two PrimaryAttribute(level) objects, then
\* SecondaryAttribute(level, tracked=tracked)
AttrInit ==
    \E l1 \in 0..MaxLevel, l2 \in 0..MaxLevel, base \in 0..MaxBase,
       tracked \in TrackedChoices :
        LET pr0 == [p \in Prims |->
                       PrimaryAttribute(IF p = "attr_1" THEN l1 ELSE l2, None)]
        IN  /\ sec = [s \in Secs |-> SecondaryAttribute(base, None, tracked, pr0)]
            /\ prim = RegisterTracked(pr0, "attr", tracked)
            /\ attrCall = NoAttrCall
            /\ delivered = <<>>

\* attr.add(listener), once for each mock and attribute
AddListener(p, listener) ==
    /\ \A i \in 1..Len(prim[p].listeners) : prim[p].listeners[i] # listener
    /\ prim' = PrimaryAdd(prim, p, listener)
    /\ attrCall' = AttrCall("add", p, 0, None, prim[p])
    /\ delivered' = <<>>
    /\ UNCHANGED sec
    /\ UNCHANGED notAttr

\* attr.level = n for a primary attribute
SetPrimaryLevel(p, n) ==
    LET r == PrimarySetLevel(prim, sec, p, n)
    IN  /\ prim' = r.prim
        /\ sec' = r.sec
        /\ delivered' = r.calls
        /\ attrCall' = AttrCall("set_level", p, n, "level", prim[p])
        /\ UNCHANGED notAttr

\* attr.value = n for a primary attribute
SetPrimaryValue(p, n) ==
    LET r == PrimarySetValue(prim, sec, p, n)
    IN  /\ prim' = r.prim
        /\ sec' = r.sec
        /\ delivered' = r.calls
        /\ attrCall' = AttrCall("set_value", p, n, "value", prim[p])
        /\ UNCHANGED notAttr

\* attr.notify(msg)
NotifyPrimary(p, msg) ==
    LET r == Notify(prim, sec, p, msg)
    IN  /\ prim' = r.prim
        /\ sec' = r.sec
        /\ delivered' = r.calls
        /\ attrCall' = AttrCall("notify", p, 0, msg, prim[p])
        /\ UNCHANGED notAttr

\* attr.level = n for a secondary attribute (the tests write attr.level -= 1:
\* n is taken next to the level reported)
SetSecondaryLevel(s, n) ==
    /\ SecondarySetLevel(sec[s], n).level <= MaxBase
    /\ sec' = [sec EXCEPT ![s] = SecondarySetLevel(@, n)]
    /\ attrCall' = AttrCall("sec_set_level", s, n, None,
                            [level |-> sec[s].effective, value |-> sec[s].value])
    /\ delivered' = <<>>
    /\ UNCHANGED prim
    /\ UNCHANGED notAttr

\* attr.value = n for a secondary attribute: Attribute.set_value, which a
\* SecondaryAttribute inherits (n is taken next to the level reported: hurt by
\* one, whole, buffed by one)
SetSecondaryValue(s, n) ==
    /\ sec' = [sec EXCEPT ![s] = AttributeSetValue(@, n)]
    /\ attrCall' = AttrCall("sec_set_value", s, n, None,
                            [level |-> sec[s].effective, value |-> sec[s].value])
    /\ delivered' = <<>>
    /\ UNCHANGED prim
    /\ UNCHANGED notAttr

\* attr.color for a primary attribute
PrimaryColor(p) ==
    /\ attrCall' = [AttrCall("color", p, 0, None, prim[p])
                       EXCEPT !.ret = AttributeColor(prim[p])]
    /\ delivered' = <<>>
    /\ UNCHANGED <<prim, sec>>
    /\ UNCHANGED notAttr

\* attr.short_string for a primary attribute: self.string(True)
PrimaryShortString(p) ==
    /\ attrCall' = [AttrCall("short_string", p, 0, None, prim[p])
                       EXCEPT !.ret = AttributeString(prim[p], TRUE)]
    /\ delivered' = <<>>
    /\ UNCHANGED <<prim, sec>>
    /\ UNCHANGED notAttr

\* attr.long_string for a primary attribute: self.string(False)
PrimaryLongString(p) ==
    /\ attrCall' = [AttrCall("long_string", p, 0, None, prim[p])
                       EXCEPT !.ret = AttributeString(prim[p], FALSE)]
    /\ delivered' = <<>>
    /\ UNCHANGED <<prim, sec>>
    /\ UNCHANGED notAttr

\* attr.color for a secondary attribute
ShowSecondaryColor(s) ==
    /\ attrCall' = [AttrCall("sec_color", s, 0, None,
                             [level |-> sec[s].effective, value |-> sec[s].value])
                       EXCEPT !.ret = SecondaryColor(sec[s]).ret,
                              !.raised = SecondaryColor(sec[s]).raised]
    /\ delivered' = <<>>
    /\ UNCHANGED <<prim, sec>>
    /\ UNCHANGED notAttr

\* The primary attributes hurt, healed and buffed, and shown
ShowNext ==
    \/ \E p \in Prims, n \in 0..(MaxLevel + 1) : SetPrimaryValue(p, n)
    \/ \E p \in Prims : PrimaryColor(p)
    \/ \E p \in Prims : PrimaryShortString(p)
    \/ \E p \in Prims : PrimaryLongString(p)

\* The secondary attribute hurt, healed and buffed, and shown
StatNext ==
    \/ \E p \in Prims, n \in -1..MaxLevel : SetPrimaryLevel(p, n)
    \/ \E s \in Secs, d \in {-1, 1} : SetSecondaryLevel(s, sec[s].effective + d)
    \/ \E s \in Secs : \E n \in 0..(sec[s].effective + 1) : SetSecondaryValue(s, n)
    \/ \E s \in Secs : ShowSecondaryColor(s)

AttrNext ==
    \/ \E p \in Prims, l \in Mocks : AddListener(p, l)
    \/ \E p \in Prims, n \in -1..MaxLevel : SetPrimaryLevel(p, n)
    \/ \E p \in Prims, n \in 0..MaxLevel : SetPrimaryValue(p, n)
    \/ \E p \in Prims, msg \in Msgs : NotifyPrimary(p, msg)
    \/ \E s \in Secs, d \in {-2, -1, 1} : SetSecondaryLevel(s, sec[s].effective + d)

\* The assignments to the attributes alone, a secondary's value among them
SecNext ==
    \/ \E p \in Prims, n \in -1..MaxLevel : SetPrimaryLevel(p, n)
    \/ \E p \in Prims, n \in 0..MaxLevel : SetPrimaryValue(p, n)
    \/ \E s \in Secs, d \in {-2, -1, 1} : SetSecondaryLevel(s, sec[s].effective + d)
    \/ \E s \in Secs, d \in {-1, 0, 1} : SetSecondaryValue(s, sec[s].effective + d)

\* Most levels a primary attribute of an AttributeList gains
MaxGain == 1

\* The level PrimaryAttribute() is built with
DefaultLevel == 10

\* The primaries of an AttributeList, in the order __init__ builds them
ListPrims ==
    {"strength", "dexterity", "agility", "constitution", "intelligence",
     "wisdom", "charisma", "luck"}

\* The tracked argument of each secondary of an AttributeList
ListTracked ==
    [health |-> <<<<3, "strength">>, <<7, "constitution">>>>,
     mana |-> <<<<3, "wisdom">>, <<7, "intelligence">>>>,
     stamina |-> <<<<6, "constitution">>, <<4, "agility">>>>]

\* AttributeList.__init__: eight PrimaryAttribute(), then health, mana and
\* stamina, each registering with the primaries it tracks
AttributeList ==
    LET pr0 == [p \in ListPrims |-> PrimaryAttribute(DefaultLevel, None)]
        pr1 == RegisterTracked(pr0, "health", ListTracked.health)
        pr2 == RegisterTracked(pr1, "mana", ListTracked.mana)
        pr3 == RegisterTracked(pr2, "stamina", ListTracked.stamina)
    IN  [prim |-> pr3,
         sec |-> [s \in DOMAIN ListTracked |->
                     SecondaryAttribute(0, None, ListTracked[s], pr0)]]

\* actor.stats = AttributeList()
AttrListInit ==
    /\ prim = AttributeList.prim
    /\ sec = AttributeList.sec
    /\ attrCall = NoAttrCall
    /\ delivered = <<>>

\* The primaries assigned to: the five some secondary tracks and one that
\* none does
ListAssigned ==
    {"strength", "agility", "constitution", "intelligence", "wisdom", "luck"}

\* Level assignments to the primaries of an AttributeList
ListNext ==
    \E p \in ListAssigned, n \in DefaultLevel..(DefaultLevel + MaxGain) :
        SetPrimaryLevel(p, n)

(***************************************************************************)
(*              rpg/data/resource.py, rpg/data/resources.py                *)
(***************************************************************************)

\* ResourceType
TypeLocation == 0
TypeDialog == 1
TypeItem == 2
TypeMonster == 3
TypeCallback == 4
TypeCOUNT == 5

Types == 0..(TypeCOUNT - 1)

\* Resource.type_id(): two scripts define a Location "a", one a Location "b",
\* one a Dialog "a"
TypeOf(o) == IF o = "dlg_a" THEN TypeDialog ELSE TypeLocation

\* Resource.resource_id()
IdOf(o) == IF o = "loc_b" THEN "b" ELSE "a"

Ids == {"a", "b"}

PkgNames == {"base", "ext"}

\* The Resources objects: GameData.resources and one Package.resources
Colls == {"game", "pkg"}

\* A dict keeps its keys in insertion order: a sequence of [key, value]
DictHas(d, k) == \E i \in 1..Len(d) : d[i].key = k

\* dict.get(k, None)
DictGet(d, k) ==
    IF DictHas(d, k)
    THEN d[CHOOSE i \in 1..Len(d) : d[i].key = k].value
    ELSE None

\* d[k] = v
DictSet(d, k, v) ==
    IF DictHas(d, k)
    THEN [i \in 1..Len(d) |-> IF d[i].key = k THEN [key |-> k, value |-> v]
                                             ELSE d[i]]
    ELSE Append(d, [key |-> k, value |-> v])

\* Resources.__init__: TypeCOUNT empty dicts
ResourcesNew == [t \in Types |-> <<>>]

\* Resources.get
ResourcesGet(m, type_id, resource_id) == DictGet(m[type_id], resource_id)

\* Resources.add that overwrites a resource already defined
ResourcesAddOverwrite(m, item) ==
    [map |-> [m EXCEPT ![TypeOf(item)] = DictSet(@, IdOf(item), item)],
     raised |-> None]

\* Resources.add: the collection afterwards and the exception raised
ResourcesAdd(m, item) ==
    IF DictHas(m[TypeOf(item)], IdOf(item))
    THEN [map |-> m, raised |-> "ResourceAlreadyDefinedError"]
    ELSE [map |-> [m EXCEPT ![TypeOf(item)] = DictSet(@, IdOf(item), item)],
          raised |-> None]

\* Resources.set_package: every resource held gets the name
ResourcesSetPackage(m, pkgs, package_name) ==
    [o \in DOMAIN pkgs |->
        IF \E t \in Types : \E i \in 1..Len(m[t]) : m[t][i].value = o
        THEN package_name ELSE pkgs[o]]

\* Resources.enumerate(None) from type t on: (type_id, key, value) of every
\* resource, dict by dict
RECURSIVE EnumerateFrom(_, _)
EnumerateFrom(m, t) ==
    IF t >= TypeCOUNT THEN <<>>
    ELSE [i \in 1..Len(m[t]) |->
             [t_id |-> TypeOf(m[t][i].value), key |-> m[t][i].key,
              value |-> m[t][i].value]]
         \o EnumerateFrom(m, t + 1)

ResourcesEnumerate(m) == EnumerateFrom(m, 0)

\* The loop of Resources.merge that asks whether the new resource's package,
\* not the old one's, is a master
RECURSIVE MergeLoopNewPkg(_, _, _, _, _)
MergeLoopNewPkg(items, m, pkgs, masters, errors) ==
    IF items = <<>> THEN [map |-> m, errors |-> errors]
    ELSE LET it == Head(items)
             old_obj == DictGet(m[it.t_id], it.key)
         IN  IF old_obj # None
             THEN IF pkgs[it.value] \in masters
                  THEN MergeLoopNewPkg(Tail(items),
                           [m EXCEPT ![it.t_id] = DictSet(@, it.key, it.value)],
                           pkgs, masters, errors)
                  ELSE MergeLoopNewPkg(Tail(items), m, pkgs, masters,
                           Append(errors, [t_id |-> it.t_id, key |-> it.key,
                                           old_pkg |-> pkgs[old_obj]]))
             ELSE MergeLoopNewPkg(Tail(items),
                      [m EXCEPT ![it.t_id] = DictSet(@, it.key, it.value)],
                      pkgs, masters, errors)

\* The loop of Resources.merge: the collection afterwards and the conflicts
\* written to _error_str
RECURSIVE MergeLoop(_, _, _, _, _)
MergeLoop(items, m, pkgs, masters, errors) ==
    IF items = <<>> THEN [map |-> m, errors |-> errors]
    ELSE LET it == Head(items)
             old_obj == DictGet(m[it.t_id], it.key)
         IN  IF old_obj # None
             THEN IF pkgs[old_obj] \in masters
                  THEN MergeLoop(Tail(items),
                           [m EXCEPT ![it.t_id] = DictSet(@, it.key, it.value)],
                           pkgs, masters, errors)
                  ELSE MergeLoop(Tail(items), m, pkgs, masters,
                           Append(errors, [t_id |-> it.t_id, key |-> it.key,
                                           old_pkg |-> pkgs[old_obj]]))
             ELSE MergeLoop(Tail(items),
                      [m EXCEPT ![it.t_id] = DictSet(@, it.key, it.value)],
                      pkgs, masters, errors)

\* The masters argument left out (masters=None); a masters list is the set of
\* its names
MastersOmitted == {None}

\* Resources.merge: masters omitted is the empty list; the value returned is
\* None when nothing was written to _error_str
ResourcesMerge(m, other, pkgs, masters) ==
    LET r == MergeLoop(ResourcesEnumerate(other), m, pkgs,
                       IF masters = MastersOmitted THEN {} ELSE masters, <<>>)
    IN  [map |-> r.map, errors |-> r.errors,
         ret |-> IF r.errors = <<>> THEN None ELSE "errors"]

\* Resources.clear
ResourcesClear(m) == [t \in Types |-> <<>>]

NoResCall ==
    [op |-> "init", coll |-> None, item |-> None, masters |-> MastersOmitted,
     pre |-> ResourcesNew, raised |-> None, ret |-> None, errors |-> <<>>]

\* Nothing was loaded or built yet
NoLoadCall ==
    [op |-> "init", raised |-> None, ret |-> 0, files |-> <<>>, pre |-> <<>>,
     log |-> <<>>]

\* Two empty collections; no resource has a package yet, Package.__init__
\* left the name empty, and Game.__init__ left the package list empty
ResInit ==
    /\ resMap = [c \in Colls |-> ResourcesNew]
    /\ objPkg = [o \in Objs |-> None]
    /\ pkgName = ""
    /\ resCall = NoResCall
    /\ packages = <<>>
    /\ loadCall = NoLoadCall

\* The objects the scripts of the registry runs hand to add
ResObjs == {"loc_a", "loc_a2", "dlg_a"}

\* c.add(item)
ResAdd(c, item) ==
    LET r == ResourcesAdd(resMap[c], item)
    IN  /\ resMap' = [resMap EXCEPT ![c] = r.map]
        /\ resCall' = [NoResCall EXCEPT !.op = "add", !.coll = c, !.item = item,
                                        !.pre = resMap[c], !.raised = r.raised]
        /\ UNCHANGED <<objPkg, pkgName>>
        /\ UNCHANGED notRes

\* c.set_package(package_name)
ResSetPackage(c, package_name) ==
    /\ objPkg' = ResourcesSetPackage(resMap[c], objPkg, package_name)
    /\ resCall' = [NoResCall EXCEPT !.op = "set_package", !.coll = c,
                                    !.item = package_name, !.pre = resMap[c]]
    /\ UNCHANGED <<resMap, pkgName>>
    /\ UNCHANGED notRes

\* c.merge(other, masters)
ResMerge(c, other, masters) ==
    LET r == ResourcesMerge(resMap[c], resMap[other], objPkg, masters)
    IN  /\ resMap' = [resMap EXCEPT ![c] = r.map]
        /\ resCall' = [NoResCall EXCEPT !.op = "merge", !.coll = c,
                                        !.item = other, !.masters = masters,
                                        !.pre = resMap[c], !.ret = r.ret,
                                        !.errors = r.errors]
        /\ UNCHANGED <<objPkg, pkgName>>
        /\ UNCHANGED notRes

\* c.clear()
ResClear(c) ==
    /\ resMap' = [resMap EXCEPT ![c] = ResourcesClear(@)]
    /\ resCall' = [NoResCall EXCEPT !.op = "clear", !.coll = c, !.pre = resMap[c]]
    /\ UNCHANGED <<objPkg, pkgName>>
    /\ UNCHANGED notRes

\* The loop of Package._load_file over the Resource instances a script
\* defines: each is added; an exception of add leaves the loop for the outer
\* handler, which counts one error
RECURSIVE LoadFileLoop(_, _, _)
LoadFileLoop(items, m, loaded) ==
    IF items = <<>> THEN [map |-> m, loaded |-> loaded, error_count |-> 0]
    ELSE LET r == ResourcesAdd(m, Head(items))
         IN  IF r.raised # None
             THEN [map |-> m, loaded |-> loaded, error_count |-> 1]
             ELSE LoadFileLoop(Tail(items), r.map, loaded + 1)

\* Package.load of a script file: the name is taken from the path, then
\* _load_file fills the Resources collection
PackageLoad(m, name, items) ==
    LET r == LoadFileLoop(items, m, 0)
    IN  [name |-> name, map |-> r.map, ret |-> r.loaded,
         error_count |-> r.error_count]

\* The scripts found: the Resource instances of each, in the order of dir()
Scripts ==
    {<<o>> : o \in ResObjs}
    \cup {<<o1, o2>> : o1 \in ResObjs, o2 \in ResObjs}

\* _package = package.Package(); _package.load(file_path, root_path, ctx)
PkgLoad(name, items) ==
    LET r == PackageLoad(ResourcesNew, name, items)
    IN  /\ pkgName' = r.name
        /\ resMap' = [resMap EXCEPT !["pkg"] = r.map]
        /\ resCall' = [NoResCall EXCEPT !.op = "load", !.coll = "pkg",
                                        !.item = name, !.pre = ResourcesNew,
                                        !.ret = r.ret,
                                        !.raised = IF r.error_count > 0
                                                   THEN "ResourceAlreadyDefinedError"
                                                   ELSE None]
        /\ UNCHANGED objPkg
        /\ UNCHANGED notRes

\* Packages loaded and merged into the registry, as _load_packages and
\* build_resources do
PkgNext ==
    \/ \E name \in PkgNames, items \in Scripts : PkgLoad(name, items)
    \/ \E m \in SUBSET PkgNames : ResMerge("game", "pkg", m)
    \/ ResClear("game")

ResNext ==
    \/ \E c \in Colls, o \in ResObjs : ResAdd(c, o)
    \/ \E n \in PkgNames : ResSetPackage("pkg", n)
    \/ \E m \in {MastersOmitted} \cup SUBSET PkgNames : ResMerge("game", "pkg", m)
    \/ \E c \in Colls : ResClear(c)


(***************************************************************************)
(*              rpg/io/log.py, rpg/io/package.py, rpg/app.py               *)
(***************************************************************************)

\* LogLevel
LevelInfo == 2
LevelError == 4
LevelFatal == 5

\* The thresholds Game.run may set the log to from the configuration
LogLevels == {LevelInfo, LevelFatal}

\* A log message: how many replacement fields its text holds and how many
\* arguments it is formatted with
Message(fields, nargs) == [fields |-> fields, nargs |-> nargs]

\* message.format(*args): a replacement field without an argument raises
Format(message) ==
    IF message.fields > message.nargs THEN "IndexError" ELSE None

\* Log.write: the message is formatted when its level reaches the threshold
LogWrite(threshold, level, message) ==
    IF level >= threshold THEN Format(message) ELSE None

\* PackageContext("", "", logger); without a logger has_logger is FALSE
PackageContext(has_logger, threshold) ==
    [has_logger |-> has_logger, threshold |-> threshold, error_count |-> 0,
     raised |-> None]

\* PackageContext.error: the logger is called first, the count comes after
ContextError(ctx, message) ==
    LET raised == IF ctx.has_logger
                  THEN LogWrite(ctx.threshold, LevelError, message)
                  ELSE None
    IN  IF raised # None THEN [ctx EXCEPT !.raised = raised]
        ELSE [ctx EXCEPT !.error_count = @ + 1]

\* A Resource class whose constructor raises
Raises == "raises"

\* Package.__init__
PackageNew ==
    [name |-> "", include |-> TRUE, dependencies |-> <<>>,
     resources |-> ResourcesNew]

\* dep not in self._dependencies: self._dependencies.append(dep)
RECURSIVE AppendDependencies(_, _)
AppendDependencies(deps, new) ==
    IF new = <<>> THEN deps
    ELSE AppendDependencies(
             IF \E i \in 1..Len(deps) : deps[i] = Head(new) THEN deps
             ELSE Append(deps, Head(new)),
             Tail(new))

\* The loop of Package._load_file over the names of the module.  A class is
\* instantiated and added inside its own try block, whose handler counts an
\* error and goes on; an instance is added without one.  raised is the
\* exception that leaves the loop.
RECURSIVE LoadItems(_, _, _, _)
LoadItems(items, m, ctx, loaded) ==
    IF items = <<>>
    THEN [map |-> m, ctx |-> ctx, loaded |-> loaded, raised |-> None]
    ELSE LET it == Head(items)
             r == IF it.obj = Raises THEN [map |-> m, raised |-> "Exception"]
                  ELSE ResourcesAdd(m, it.obj)
         IN  IF r.raised = None
             THEN LoadItems(Tail(items), r.map, ctx, loaded + 1)
             ELSE IF it.kind = "class"
             THEN LET c == ContextError(ctx, Message(2, 2))
                  IN  IF c.raised # None
                      THEN [map |-> m, ctx |-> ctx, loaded |-> loaded,
                            raised |-> c.raised]
                      ELSE LoadItems(Tail(items), m, c, loaded)
             ELSE [map |-> m, ctx |-> ctx, loaded |-> loaded,
                   raised |-> r.raised]

\* Package._load_file.  The outer handler hands the formatted traceback to
\* ctx.error as the message: its text holds the source lines of the frames,
\* so the replacement fields it holds are those of the script line that
\* failed (none in the lines of package.py and resources.py).
PackageLoadFile(pkg, ctx, script) ==
    IF script.fails
    THEN [pkg |-> pkg, loaded |-> 0,
          ctx |-> ContextError(ctx, Message(script.fields, 0))]
    ELSE LET c1 == IF script.author_is_str THEN ctx
                   ELSE ContextError(ctx, Message(0, 0))
             deps == AppendDependencies(pkg.dependencies, script.dependencies)
             r == LoadItems(script.items, pkg.resources, c1, 0)
             p == [pkg EXCEPT !.dependencies = deps, !.resources = r.map]
         IN  IF r.raised = None
             THEN [pkg |-> p, loaded |-> r.loaded, ctx |-> r.ctx]
             ELSE [pkg |-> p, loaded |-> r.loaded,
                   ctx |-> ContextError(r.ctx, Message(0, 0))]

\* Package._load_dir: every file of the directory, with the one context; an
\* exception that leaves _load_file leaves the loop
RECURSIVE PackageLoadDir(_, _, _, _)
PackageLoadDir(pkg, ctx, scripts, loaded) ==
    IF scripts = <<>> \/ ctx.raised # None
    THEN [pkg |-> pkg, loaded |-> loaded, ctx |-> ctx]
    ELSE LET r == PackageLoadFile(pkg, ctx, Head(scripts))
         IN  PackageLoadDir(r.pkg, r.ctx, Tail(scripts), loaded + r.loaded)

\* Package.load(path_name, root_path, ctx) of a path that exists: the name
\* comes from the path, then the directory or the file is loaded
PackageLoadPath(pkg, file, ctx) ==
    LET named == [pkg EXCEPT !.name = file.name]
    IN  IF file.is_dir THEN PackageLoadDir(named, ctx, file.scripts, 0)
        ELSE PackageLoadFile(named, ctx, file.scripts[1])

\* The loop of Game._load_packages: a name that starts with an underscore is
\* skipped; a Package joins the list when its context counted no error.  An
\* exception that leaves Package.load leaves _load_packages.
RECURSIVE LoadPackagesLoop(_, _, _, _)
LoadPackagesLoop(files, pkgs, threshold, log) ==
    IF files = <<>> THEN [packages |-> pkgs, raised |-> None, log |-> log]
    ELSE LET file == Head(files)
             r == PackageLoadPath(PackageNew, file,
                                  PackageContext(TRUE, threshold))
             entry == [name |-> file.name, skipped |-> FALSE,
                       error_count |-> r.ctx.error_count,
                       loaded |-> r.loaded, resources |-> r.pkg.resources,
                       raised |-> r.ctx.raised]
         IN  IF file.hidden
             THEN LoadPackagesLoop(Tail(files), pkgs, threshold,
                      Append(log, [entry EXCEPT !.skipped = TRUE,
                                                !.error_count = 0,
                                                !.loaded = 0,
                                                !.resources = ResourcesNew,
                                                !.raised = None]))
             ELSE IF r.ctx.raised # None
             THEN [packages |-> pkgs, raised |-> r.ctx.raised,
                   log |-> Append(log, entry)]
             ELSE LoadPackagesLoop(Tail(files),
                      IF r.ctx.error_count = 0 THEN Append(pkgs, r.pkg)
                      ELSE pkgs,
                      threshold, Append(log, entry))

\* Most names a package script defines
MaxItems == 2

\* What a script may define: a Resource instance, a Resource class, and a
\* Resource class that cannot be instantiated
ScriptItems ==
    {[kind |-> "instance", obj |-> o] : o \in ResObjs}
    \cup {[kind |-> "class", obj |-> o] : o \in {"loc_a", Raises}}

\* dir(_module) of a script that defines up to max names
ItemSeqs(max) == UNION {[1..n -> ScriptItems] : n \in 0..max}

Script(fails, fields, author_is_str, dependencies, items) ==
    [fails |-> fails, fields |-> fields, author_is_str |-> author_is_str,
     dependencies |-> dependencies, items |-> items]

\* The scripts: one that defines its items, one whose Author is no string,
\* and one whose import raises, on a line with or without braces
LoadScripts(max) ==
    {Script(FALSE, 0, TRUE, <<>>, items) : items \in ItemSeqs(max)}
    \cup {Script(FALSE, 0, FALSE, <<>>, <<>>)}
    \cup {Script(TRUE, f, TRUE, <<>>, <<>>) : f \in {0, 1}}

File(name, hidden, is_dir, scripts) ==
    [name |-> name, hidden |-> hidden, is_dir |-> is_dir, scripts |-> scripts]

\* What os.listdir may find under ./data/packages: a script "base", and next
\* to it, before or after, a script "ext", a directory "ext" of two scripts
\* or "__pycache__"
LoadListings(max) ==
    LET base == {File("base", FALSE, FALSE, <<s>>) : s \in LoadScripts(max)}
        ext == {File("ext", FALSE, FALSE, <<s>>) : s \in LoadScripts(max)}
               \cup {File("ext", FALSE, TRUE, <<s, t>>) :
                        s \in {Script(FALSE, 0, TRUE, <<>>,
                                      <<[kind |-> "instance", obj |-> o]>>) :
                                   o \in ResObjs},
                        t \in {Script(FALSE, 0, TRUE, <<>>,
                                      <<[kind |-> "instance", obj |-> "loc_a"]>>),
                               Script(TRUE, 1, TRUE, <<>>, <<>>)}}
               \cup {File("__pycache__", TRUE, TRUE, <<>>)}
    IN  {<<b>> : b \in base}
        \cup {<<b, e>> : b \in base, e \in ext}
        \cup {<<e, b>> : b \in base, e \in ext}

\* self._load_packages("./data/packages")
LoadPackages(files, threshold) ==
    /\ LET r == LoadPackagesLoop(files, <<>>, threshold, <<>>)
       IN  /\ packages' = r.packages
           /\ loadCall' = [NoLoadCall EXCEPT !.op = "load_packages",
                                             !.raised = r.raised,
                                             !.files = files, !.log = r.log,
                                             !.pre = <<threshold>>]
    /\ UNCHANGED <<resMap, objPkg>>
    /\ UNCHANGED notLoad

\* The loop of Game.build_resources that merges into what the registry holds
RECURSIVE BuildLoop(_, _, _, _)
BuildLoop(pkgs, m, objpkg, package_count) ==
    IF pkgs = <<>> THEN [map |-> m, ret |-> package_count]
    ELSE LET pkg == Head(pkgs)
         IN  IF pkg.include
             THEN BuildLoop(Tail(pkgs),
                      ResourcesMerge(m, pkg.resources, objpkg,
                          {pkg.dependencies[i] :
                               i \in 1..Len(pkg.dependencies)}).map,
                      objpkg, package_count + 1)
             ELSE BuildLoop(Tail(pkgs), m, objpkg, package_count)

\* Game.build_resources without self.state.resources.clear()
BuildResourcesNoClear(registry, pkgs, objpkg) ==
    BuildLoop(pkgs, registry, objpkg, 0)

\* Game.build_resources: the registry is cleared, then every included
\* package is merged with its dependencies as the masters
BuildResources(registry, pkgs, objpkg) ==
    BuildLoop(pkgs, ResourcesClear(registry), objpkg, 0)

\* The listings whose packages load without an error: "base" defines the
\* Location "a" and may define the Location "b"; "ext" defines a Location "a"
\* of its own and may define the Dialog "a"; either may name the other in
\* Dependencies
BuildListings ==
    LET inst(o) == [kind |-> "instance", obj |-> o]
        base == {File("base", FALSE, FALSE, <<Script(FALSE, 0, TRUE, d, items)>>) :
                    d \in {<<>>, <<"ext">>},
                    items \in {<<inst("loc_a")>>, <<inst("loc_a"), inst("loc_b")>>}}
        ext == {File("ext", FALSE, FALSE, <<Script(FALSE, 0, TRUE, d, items)>>) :
                   d \in {<<>>, <<"base">>},
                   items \in {<<inst("loc_a2")>>, <<inst("loc_a2"), inst("dlg_a")>>}}
    IN  {<<b, e>> : b \in base, e \in ext} \cup {<<e, b>> : b \in base, e \in ext}

\* package.include = include, for the package at position i of the list
SetInclude(i, include) ==
    /\ i \in 1..Len(packages)
    /\ packages' = [packages EXCEPT ![i].include = include]
    /\ loadCall' = [NoLoadCall EXCEPT !.op = "set_include"]
    /\ UNCHANGED <<resMap, objPkg>>
    /\ UNCHANGED notLoad

\* package.resources.set_package(package.name), for the package at position i
SetPackage(i) ==
    /\ i \in 1..Len(packages)
    /\ objPkg' = ResourcesSetPackage(packages[i].resources, objPkg,
                                     packages[i].name)
    /\ loadCall' = [NoLoadCall EXCEPT !.op = "set_package"]
    /\ UNCHANGED <<resMap, packages>>
    /\ UNCHANGED notLoad

\* self._game_obj.build_resources()
GameBuildResources ==
    /\ LET r == BuildResources(resMap["game"], packages, objPkg)
       IN  /\ resMap' = [resMap EXCEPT !["game"] = r.map]
           /\ loadCall' = [NoLoadCall EXCEPT !.op = "build_resources",
                                             !.ret = r.ret,
                                             !.pre = resMap["game"]]
    /\ UNCHANGED <<objPkg, packages>>
    /\ UNCHANGED notLoad

\* Game.run loads the packages; then packages are taken in and out and the
\* registry is built from the main menu
LoadClean ==
    /\ loadCall.op = "init"
    /\ \E files \in BuildListings : LoadPackages(files, LevelInfo)

BuildNext ==
    \/ LoadClean
    \/ \E i \in 1..2, include \in BOOLEAN : SetInclude(i, include)
    \/ \E i \in 1..2 : SetPackage(i)
    \/ GameBuildResources

\* Game.run calls _load_packages once, before the first view is pushed
LoadNext ==
    /\ loadCall.op = "init"
    /\ \E files \in LoadListings(MaxItems), threshold \in LogLevels :
           LoadPackages(files, threshold)


(***************************************************************************)
(*                     rpg/ui/views.py, rpg/app.py                         *)
(***************************************************************************)

\* Deepest view stack
MaxDepth == 3

\* ViewManager._views after load_views: the names of the views registered
ViewNames == {"MainMenu", "NewGame", "GameView"}

\* A name load_views registered no view under
NoSuchView == "Credits"

\* GameView.__init__ sets _game_view
IsGameView(v) == v = "GameView"

\* The ViewManager with the Game it quits: what an operation works on
ViewManager ==
    [stack |-> viewStack, life |-> viewLife, packed |-> viewPacked,
     root |-> root, returnValue |-> returnValue, calls |-> <<>>,
     misuse |-> <<>>]

\* View.start / resume / pause / stop: the life cycle their docstrings give
LifeAfter(cb) ==
    CASE cb = "start" -> "active"
      [] cb = "resume" -> "active"
      [] cb = "pause" -> "paused"
      [] cb = "stop" -> "stopped"

\* resume() on a view that is not paused, pause() on one that is not active
Misused(cb, was) ==
    \/ cb = "resume" /\ was # "paused"
    \/ cb = "pause" /\ was # "active"

\* view.start(), view.resume(), view.pause() or view.stop()
Call(vm, cb, v) ==
    [vm EXCEPT !.life[v] = LifeAfter(cb),
               !.calls = Append(@, [cb |-> cb, view |-> v, arg |-> 0]),
               !.misuse = IF Misused(cb, vm.life[v])
                          THEN Append(@, [cb |-> cb, view |-> v,
                                          was |-> vm.life[v]])
                          ELSE @]

\* view.pack(side="top", fill="both", expand=True)
Pack(vm, v) == [vm EXCEPT !.packed = @ \cup {v}]

\* view.pack_forget()
PackForget(vm, v) == [vm EXCEPT !.packed = @ \ {v}]

\* self._stack[-1]
Top(vm) == vm.stack[Len(vm.stack)]

\* self._stack.pop()
StackPop(vm) == [vm EXCEPT !.stack = SubSeq(@, 1, Len(@) - 1)]

\* self._game_obj.log.error(...)
LogError(vm, name) ==
    [vm EXCEPT !.calls = Append(@, [cb |-> "log.error", view |-> name, arg |-> 0])]

\* Game.quit that sets the return value whether a root window exists or not
GameQuitAlwaysSets(vm, return_value) ==
    IF vm.root
    THEN [vm EXCEPT !.root = FALSE, !.returnValue = return_value,
                    !.calls = Append(@, [cb |-> "quit", view |-> None,
                                         arg |-> return_value])]
    ELSE [vm EXCEPT !.returnValue = return_value]

\* Game.quit
GameQuit(vm, return_value) ==
    IF vm.root
    THEN [vm EXCEPT !.root = FALSE, !.returnValue = return_value,
                    !.calls = Append(@, [cb |-> "quit", view |-> None,
                                         arg |-> return_value])]
    ELSE vm

\* self._views.get(view_name, None)
ViewsGet(name) == IF name \in ViewNames THEN name ELSE None

\* ViewManager.swap done as pop() then push(): the view below is resumed and
\* paused on the way
ViewSwapResumes(vm, view_name) ==
    LET view == ViewsGet(view_name)
    IN  IF view # None
        THEN LET vm1 == IF Len(vm.stack) > 0
                        THEN StackPop(PackForget(Call(vm, "stop", Top(vm)), Top(vm)))
                        ELSE vm
                 vm2 == IF Len(vm1.stack) > 0
                        THEN Call(Call(vm1, "resume", Top(vm1)), "pause", Top(vm1))
                        ELSE vm1
                 vm3 == [vm2 EXCEPT !.stack = Append(@, view)]
             IN  Call(Pack(vm3, view), "start", view)
        ELSE LogError(vm, view_name)

\* ViewManager.swap
ViewSwap(vm, view_name) ==
    LET view == ViewsGet(view_name)
    IN  IF view # None
        THEN LET vm1 == IF Len(vm.stack) > 0
                        THEN StackPop(PackForget(Call(vm, "stop", Top(vm)), Top(vm)))
                        ELSE vm
                 vm2 == [vm1 EXCEPT !.stack = Append(@, view)]
             IN  Call(Pack(vm2, view), "start", view)
        ELSE LogError(vm, view_name)

\* ViewManager.push that covers the current view without pausing it
ViewPushNoPause(vm, view_name) ==
    LET view == ViewsGet(view_name)
    IN  IF view # None
        THEN LET vm1 == IF Len(vm.stack) > 0
                        THEN PackForget(vm, Top(vm))
                        ELSE vm
                 vm2 == [vm1 EXCEPT !.stack = Append(@, view)]
             IN  Call(Pack(vm2, view), "start", view)
        ELSE LogError(vm, view_name)

\* ViewManager.push
ViewPush(vm, view_name) ==
    LET view == ViewsGet(view_name)
    IN  IF view # None
        THEN LET vm1 == IF Len(vm.stack) > 0
                        THEN PackForget(Call(vm, "pause", Top(vm)), Top(vm))
                        ELSE vm
                 vm2 == [vm1 EXCEPT !.stack = Append(@, view)]
             IN  Call(Pack(vm2, view), "start", view)
        ELSE LogError(vm, view_name)

\* remaining of ViewManager.pop, one short
PopRemainingShort(num, n_views) == Max(Min(num, n_views) - 2, 0)

\* remaining = max(min(num, n_views) - 1, 0)
PopRemaining(num, n_views) == Max(Min(num, n_views) - 1, 0)

\* for _ in range(remaining): stop the top view and pop it
RECURSIVE PopLoop(_, _)
PopLoop(vm, remaining) ==
    IF remaining <= 0 THEN vm
    ELSE PopLoop(StackPop(Call(vm, "stop", Top(vm))), remaining - 1)

\* ViewManager.pop
ViewPop(vm, num, quit_if_empty) ==
    LET n_views == Len(vm.stack)
    IN  IF n_views > 0 /\ num > 0
        THEN LET vm1 == StackPop(PackForget(Call(vm, "stop", Top(vm)), Top(vm)))
                 vm2 == PopLoop(vm1, PopRemaining(num, n_views))
             IN  IF Len(vm2.stack) = 0
                 THEN IF quit_if_empty THEN GameQuit(vm2, 0) ELSE vm2
                 ELSE Call(Pack(vm2, Top(vm2)), "resume", Top(vm2))
        ELSE vm

\* ViewManager.clear
ViewClear(vm, quit_if_empty) ==
    LET n_views == Len(vm.stack)
    IN  IF n_views > 0 THEN ViewPop(vm, n_views, quit_if_empty) ELSE vm

NoViewCall ==
    [op |-> "init", name |-> None, num |-> 0, quit_if_empty |-> FALSE,
     pre |-> <<>>, calls |-> <<>>, misuse |-> <<>>]

\* Game.run has made the root window and load_views the views; no view is
\* on the stack yet
ViewInit ==
    /\ viewStack = <<>>
    /\ viewLife = [v \in ViewNames |-> "new"]
    /\ viewPacked = {}
    /\ root = TRUE
    /\ returnValue = 0
    /\ gamePhase = "mainloop"
    /\ runResult = None
    /\ quitLog = <<>>
    /\ viewCall = NoViewCall

\* The Game.quit calls among the calls of an operation, as quitLog holds them
QuitsOf(calls) ==
    LET quits == SelectSeq(calls, LAMBDA c : c.cb = "quit")
    IN  [i \in 1..Len(quits) |-> [arg |-> quits[i].arg, had_root |-> TRUE]]

\* The ViewManager and the Game as an operation left them
ViewDone(vm, call) ==
    /\ viewStack' = vm.stack
    /\ viewLife' = vm.life
    /\ viewPacked' = vm.packed
    /\ root' = vm.root
    /\ returnValue' = vm.returnValue
    /\ quitLog' = quitLog \o QuitsOf(vm.calls)
    /\ UNCHANGED <<gamePhase, runResult>>
    /\ viewCall' = [call EXCEPT !.pre = viewStack, !.calls = vm.calls,
                                !.misuse = vm.misuse]
    /\ UNCHANGED notView

\* stack.push(name), from a handler of the running window
Push(name) ==
    /\ root
    /\ Len(viewStack) < MaxDepth
    /\ ViewDone(ViewPush(ViewManager, name),
                [NoViewCall EXCEPT !.op = "push", !.name = name])

\* stack.swap(name)
Swap(name) ==
    /\ root
    /\ ViewDone(ViewSwap(ViewManager, name),
                [NoViewCall EXCEPT !.op = "swap", !.name = name])

\* stack.pop(num, quit_if_empty)
Pop(num, quit_if_empty) ==
    /\ root
    /\ ViewDone(ViewPop(ViewManager, num, quit_if_empty),
                [NoViewCall EXCEPT !.op = "pop", !.num = num,
                                   !.quit_if_empty = quit_if_empty])

\* stack.clear(quit_if_empty)
Clear(quit_if_empty) ==
    /\ root
    /\ ViewDone(ViewClear(ViewManager, quit_if_empty),
                [NoViewCall EXCEPT !.op = "clear", !.num = Len(viewStack),
                                   !.quit_if_empty = quit_if_empty])

\* What the name entry of the NewGame view holds when Next is pressed
EntryNames == {"", "Hero"}

\* NewGameView._action_next: nothing with an empty name; otherwise
\* stack.push("GameView"), then the player's name is set and frmStats.write
\* raises AttributeError at stats.strength.level_up, which PrimaryAttribute
\* does not have, so state.start() is not reached
NewGameActionNext(vm, name) ==
    IF name = "" THEN vm ELSE ViewPush(vm, "GameView")

\* The Next button of the NewGame view, which is on top, is pressed
ActionNext(name) ==
    /\ root
    /\ Len(viewStack) > 0
    /\ Len(viewStack) < MaxDepth
    /\ Top(ViewManager) = "NewGame"
    /\ ViewDone(NewGameActionNext(ViewManager, name),
                [NoViewCall EXCEPT !.op = "action_next", !.name = name])

\* Most Game.quit calls made
MaxQuits == 3

\* The values handed to Game.quit
QuitValues == {1, 2}

\* The view whose __init__ sets _initial_view
InitialView == "MainMenu"

\* Game.__init__: no root window, return value 0, an empty ViewManager
RunInit ==
    /\ viewStack = <<>>
    /\ viewLife = [v \in ViewNames |-> "new"]
    /\ viewPacked = {}
    /\ root = FALSE
    /\ returnValue = 0
    /\ gamePhase = "constructed"
    /\ runResult = None
    /\ quitLog = <<>>
    /\ viewCall = NoViewCall

\* Game.run up to tkinter.mainloop(): the root window is made, the views are
\* loaded and the initial view is pushed
RunStart ==
    /\ gamePhase = "constructed"
    /\ LET vm == ViewPush([ViewManager EXCEPT !.root = TRUE], InitialView)
       IN  /\ viewStack' = vm.stack
           /\ viewLife' = vm.life
           /\ viewPacked' = vm.packed
           /\ root' = vm.root
           /\ returnValue' = vm.returnValue
           /\ viewCall' = [NoViewCall EXCEPT !.op = "run", !.name = InitialView,
                                             !.calls = vm.calls]
    /\ gamePhase' = "mainloop"
    /\ UNCHANGED <<runResult, quitLog>>
    /\ UNCHANGED notView

\* game.quit(return_value), before run or from a handler, also after the
\* window has been released
Quit(return_value) ==
    /\ gamePhase \in {"constructed", "mainloop"}
    /\ Len(quitLog) < MaxQuits
    /\ LET vm == GameQuit(ViewManager, return_value)
       IN  /\ root' = vm.root
           /\ returnValue' = vm.returnValue
           /\ viewCall' = [NoViewCall EXCEPT !.op = "quit", !.num = return_value,
                                             !.pre = viewStack, !.calls = vm.calls]
    /\ quitLog' = Append(quitLog, [arg |-> return_value, had_root |-> root])
    /\ UNCHANGED <<viewStack, viewLife, viewPacked, gamePhase, runResult>>
    /\ UNCHANGED notView

\* ViewManager.finalize from view i of the stack on: stop every view, bottom
\* first
RECURSIVE FinalizeFrom(_, _)
FinalizeFrom(vm, i) ==
    IF i > Len(vm.stack) THEN [vm EXCEPT !.stack = <<>>]
    ELSE FinalizeFrom(Call(vm, "stop", vm.stack[i]), i + 1)

\* Game.run from the return of tkinter.mainloop(), which root.quit() ends:
\* stack.finalize(), then return self._return_value
RunReturn ==
    /\ gamePhase = "mainloop"
    /\ ~root
    /\ LET vm == FinalizeFrom(ViewManager, 1)
       IN  /\ viewStack' = vm.stack
           /\ viewLife' = vm.life
           /\ viewPacked' = vm.packed
           /\ viewCall' = [NoViewCall EXCEPT !.op = "return", !.pre = viewStack,
                                             !.calls = vm.calls]
    /\ gamePhase' = "returned"
    /\ runResult' = returnValue
    /\ UNCHANGED <<root, returnValue, quitLog>>
    /\ UNCHANGED notView

\* One run of the Game, with quit called from anywhere
RunNext ==
    \/ RunStart
    \/ \E v \in QuitValues : Quit(v)
    \/ \E name \in ViewNames : Push(name)
    \/ \E num \in 1..MaxDepth, q \in BOOLEAN : Pop(num, q)
    \/ RunReturn

ViewNext ==
    \/ \E name \in EntryNames : ActionNext(name)
    \/ \E name \in ViewNames \cup {NoSuchView} : Push(name)
    \/ \E name \in ViewNames \cup {NoSuchView} : Swap(name)
    \/ \E num \in -1..(MaxDepth + 1), q \in BOOLEAN : Pop(num, q)
    \/ \E q \in BOOLEAN : Clear(q)


(***************************************************************************)
(*                            rpg/state.py                                 *)
(***************************************************************************)

\* Deepest nesting of set_location calls made from Location.start hooks
MaxNesting == 3
\* Most calls the start hooks make within one outermost call
MaxHookCalls == 3

\* GameState
StateStopped == 0
StateLocation == 1
StateDialog == 2
StateFight == 3

\* An id no package defines a resource under
NoSuchId == "c"

\* GameData.__init__
GameDataNew ==
    [state |-> StateStopped, location |-> None, dialog |-> None,
     monster |-> None, add_loc_text |-> FALSE]

\* One thing an outermost call did: a start hook entered, a displayable
\* handed to view.display, an error logged
Event(ev, obj) == [ev |-> ev, obj |-> obj]

\* What a piece of GameData code works on: the data, the events so far and
\* the exception on its way out
Running(gd, trace) == [gd |-> gd, trace |-> trace, raised |-> None]

\* ViewManager.current
ViewCurrent(stack) == IF Len(stack) > 0 THEN stack[Len(stack)] ELSE None

\* GameData._display: current() is None on an empty stack, and
\* None.is_game_view() raises AttributeError; so does GameView.display of
\* None, at displayable.text
Display(r, displayable, stack) ==
    LET view == ViewCurrent(stack)
    IN  IF view = None THEN [r EXCEPT !.raised = "AttributeError"]
        ELSE IF IsGameView(view)
             THEN IF displayable = None
                  THEN [r EXCEPT !.raised = "AttributeError"]
                  ELSE [r EXCEPT !.trace = Append(@, Event("display", displayable))]
             ELSE r

\* set_location's test after the hook with the state test left out
ShouldDisplayAnyState(gd, instance) == instance = gd.location

\* set_location, after the start hook: display only if the state is
\* GameState.Location and the instance is still the current location
ShouldDisplay(gd, instance) ==
    gd.state = StateLocation /\ instance = gd.location

\* GameData.set_location up to and into self.location.start(game): the
\* instance looked up, and what is running if it was found
SetLocationEnter(r, registry, location_id) ==
    LET instance == ResourcesGet(registry, TypeLocation, location_id)
    IN  [instance |-> instance,
         r |-> IF instance = None
               THEN [r EXCEPT !.trace = Append(@, Event("log.error", location_id))]
               ELSE [r EXCEPT !.gd.state = StateLocation,
                              !.gd.location = instance,
                              !.gd.add_loc_text = TRUE,
                              !.trace = Append(@, Event("start", instance))]]

\* GameData.set_location from the return of self.location.start(game) on
SetLocationLeave(r, instance, stack) ==
    IF ShouldDisplay(r.gd, instance)
    THEN IF r.gd.location # None THEN Display(r, r.gd.location, stack) ELSE r
    ELSE r

\* GameData.set_dialog that sets the state before it looks the id up
SetDialogStateFirst(r, registry, dialog_id, stack) ==
    LET instance == ResourcesGet(registry, TypeDialog, dialog_id)
    IN  IF instance = None
        THEN [r EXCEPT !.gd.state = StateDialog,
                       !.trace = Append(@, Event("log.error", dialog_id))]
        ELSE Display([r EXCEPT !.gd.state = StateDialog,
                               !.gd.dialog = instance],
                     instance, stack)

\* GameData.set_dialog
SetDialog(r, registry, dialog_id, stack) ==
    LET instance == ResourcesGet(registry, TypeDialog, dialog_id)
    IN  IF instance = None
        THEN [r EXCEPT !.trace = Append(@, Event("log.error", dialog_id))]
        ELSE Display([r EXCEPT !.gd.state = StateDialog,
                               !.gd.dialog = instance],
                     instance, stack)

\* GameData.resume_display
ResumeDisplay(r, stack) ==
    IF r.gd.state = StateLocation THEN Display(r, r.gd.location, stack)
    ELSE IF r.gd.state = StateDialog THEN Display(r, r.gd.dialog, stack)
    ELSE [r EXCEPT !.trace = Append(@, Event("log.error", "resume_display"))]

\* GameData.stop_fight: the GameView's fight_end calls resume_display itself,
\* then stop_fight calls it again
StopFight(r, stack) ==
    LET r1 == [r EXCEPT !.gd.state = StateLocation]
        view == ViewCurrent(stack)
    IN  IF view = None THEN [r1 EXCEPT !.raised = "AttributeError"]
        ELSE LET r2 == IF IsGameView(view)
                       THEN ResumeDisplay(
                                [r1 EXCEPT !.trace = Append(@, Event("fight_end", view))],
                                stack)
                       ELSE r1
             IN  IF r2.raised # None THEN r2 ELSE ResumeDisplay(r2, stack)

\* GameData.set_fight: the state is set, then ResourceType.Actor, which the
\* enumeration does not have, raises AttributeError
SetFight(r, monster_id) ==
    [r EXCEPT !.gd.state = StateFight, !.raised = "AttributeError"]

\* GameData.start with a registry that holds no Callback resource: location
\* and dialog are reset, _state is not, and the error is logged
Start(r, registry) ==
    LET r1 == [r EXCEPT !.gd.location = None, !.gd.dialog = None]
    IN  IF r1.gd.location = None
        THEN [r1 EXCEPT !.trace = Append(@, Event("log.error", "start"))]
        ELSE r1

NoGameCall ==
    [op |-> "init", id |-> None, instance |-> None, raised |-> None,
     hookCalls |-> 0, trace |-> <<>>]

GameInit ==
    /\ gameData = GameDataNew
    /\ gameFrames = <<>>
    /\ gameCall = NoGameCall

\* What a step of GameData leaves: an exception unwinds every call
GameDone(r, frames, call) ==
    /\ gameData' = r.gd
    /\ gameFrames' = IF r.raised # None THEN <<>> ELSE frames
    /\ gameCall' = [call EXCEPT !.trace = r.trace, !.raised = r.raised]
    /\ UNCHANGED notGame

\* state.set_location(id) from an event handler, up to the start hook
GameSetLocation(location_id) ==
    /\ gameFrames = <<>>
    /\ LET e == SetLocationEnter(Running(gameData, <<>>), resMap["game"],
                                 location_id)
       IN  GameDone(e.r,
                    IF e.instance = None THEN <<>> ELSE <<e.instance>>,
                    [NoGameCall EXCEPT !.op = "set_location",
                                       !.id = location_id,
                                       !.instance = e.instance])

\* state.set_dialog(id) from an event handler
GameSetDialog(dialog_id) ==
    /\ gameFrames = <<>>
    /\ GameDone(SetDialog(Running(gameData, <<>>), resMap["game"], dialog_id,
                          viewStack),
                <<>>,
                [NoGameCall EXCEPT !.op = "set_dialog", !.id = dialog_id,
                     !.instance = ResourcesGet(resMap["game"], TypeDialog,
                                               dialog_id)])

\* state.resume_display() from an event handler
GameResumeDisplay ==
    /\ gameFrames = <<>>
    /\ GameDone(ResumeDisplay(Running(gameData, <<>>), viewStack), <<>>,
                [NoGameCall EXCEPT !.op = "resume_display"])

\* state.stop_fight() from an event handler
GameStopFight ==
    /\ gameFrames = <<>>
    /\ GameDone(StopFight(Running(gameData, <<>>), viewStack), <<>>,
                [NoGameCall EXCEPT !.op = "stop_fight"])

\* state.set_fight(id) from an event handler
GameSetFight(monster_id) ==
    /\ gameFrames = <<>>
    /\ GameDone(SetFight(Running(gameData, <<>>), monster_id), <<>>,
                [NoGameCall EXCEPT !.op = "set_fight", !.id = monster_id])

\* state.start() from NewGameView._action_next; the registry of the model
\* holds no Callback resource
GameStart ==
    /\ gameFrames = <<>>
    /\ resMap["game"][TypeCallback] = <<>>
    /\ GameDone(Start(Running(gameData, <<>>), resMap["game"]), <<>>,
                [NoGameCall EXCEPT !.op = "start"])

\* The start hook that is running calls game.state.set_location(id)
HookSetLocation(location_id) ==
    /\ gameFrames # <<>>
    /\ Len(gameFrames) < MaxNesting
    /\ gameCall.hookCalls < MaxHookCalls
    /\ LET e == SetLocationEnter(Running(gameData, gameCall.trace),
                                 resMap["game"], location_id)
       IN  GameDone(e.r,
                    IF e.instance = None THEN gameFrames
                    ELSE Append(gameFrames, e.instance),
                    [gameCall EXCEPT !.hookCalls = @ + 1])

\* The start hook that is running calls game.state.set_dialog(id)
HookSetDialog(dialog_id) ==
    /\ gameFrames # <<>>
    /\ gameCall.hookCalls < MaxHookCalls
    /\ GameDone(SetDialog(Running(gameData, gameCall.trace), resMap["game"],
                          dialog_id, viewStack),
                gameFrames,
                [gameCall EXCEPT !.hookCalls = @ + 1])

\* The start hook that is running returns, and the set_location that called
\* it goes on to its end
HookReturn ==
    /\ gameFrames # <<>>
    /\ GameDone(SetLocationLeave(Running(gameData, gameCall.trace),
                                 gameFrames[Len(gameFrames)], viewStack),
                SubSeq(gameFrames, 1, Len(gameFrames) - 1),
                gameCall)

GameNext ==
    \/ GameStart
    \/ \E id \in Ids \cup {NoSuchId} : GameSetLocation(id)
    \/ \E id \in Ids \cup {NoSuchId} : GameSetDialog(id)
    \/ GameResumeDisplay
    \/ GameStopFight
    \/ \E id \in Ids \cup {NoSuchId} : GameSetFight(id)
    \/ \E id \in Ids \cup {NoSuchId} : HookSetLocation(id)
    \/ \E id \in Ids \cup {NoSuchId} : HookSetDialog(id)
    \/ HookReturn

\* The registry after build_resources merged a package that defines the
\* Locations "a" and "b" and the Dialog "a"
GamePackage ==
    ResourcesAdd(ResourcesAdd(ResourcesAdd(ResourcesNew, "loc_a").map,
                              "loc_b").map, "dlg_a").map

GameRegistry ==
    /\ resMap = [c \in Colls |->
                    IF c = "pkg" THEN GamePackage
                    ELSE ResourcesMerge(ResourcesNew, GamePackage,
                                        [o \in Objs |-> None], {}).map]
    /\ objPkg = [o \in Objs |-> None]
    /\ pkgName = "base"
    /\ resCall = [NoResCall EXCEPT !.op = "merge", !.coll = "game",
                                   !.item = "pkg", !.masters = {}]
    /\ packages = <<[name |-> "base", include |-> TRUE, dependencies |-> <<>>,
                     resources |-> GamePackage]>>
    /\ loadCall = [NoLoadCall EXCEPT !.op = "build_resources", !.ret = 1]

\* The views pushed before the game data is used: none, the main menu, or
\* the game view over the main menu
RECURSIVE PushAll(_, _)
PushAll(vm, names) ==
    IF names = <<>> THEN vm
    ELSE PushAll([ViewPush(vm, Head(names)) EXCEPT !.calls = <<>>], Tail(names))

GameViews ==
    \E names \in {<<>>, <<"MainMenu">>, <<"MainMenu", "GameView">>} :
        LET vm == PushAll([stack |-> <<>>,
                           life |-> [v \in ViewNames |-> "new"],
                           packed |-> {}, root |-> TRUE, returnValue |-> 0,
                           calls |-> <<>>, misuse |-> <<>>], names)
        IN  /\ viewStack = vm.stack
            /\ viewLife = vm.life
            /\ viewPacked = vm.packed
            /\ root = vm.root
            /\ returnValue = vm.returnValue
            /\ gamePhase = "mainloop"
            /\ runResult = None
            /\ quitLog = <<>>
            /\ viewCall = NoViewCall


(***************************************************************************)
(*                          rpg/ui/options.py                              *)
(***************************************************************************)

\* Most options handed to generate_paged_list
MaxOptions == 50

\* OptionList.MaxRows, OptionList.MaxColumns
MaxRows == 3
MaxColumns == 8

\* A slot of an OptionList: None, the Option made for options[id], or a
\* Next or Prev Option whose event shows the OptionList at place id, or Cancel
Slot(kind, id) == [kind |-> kind, id |-> id]

NoOption == Slot("None", 0)

\* OptionList.__init__ without options: MaxRows rows of MaxColumns None
OptionList ==
    [row \in 0..(MaxRows - 1) |-> [col \in 0..(MaxColumns - 1) |-> NoOption]]

\* OptionList.set
OptionListSet(opts, option, row, column) ==
    [opts EXCEPT ![row][column] = option]

\* The inner loop of generate_paged_list from j on: options[base + j] is set
\* at row j // MaxColumns and column j % MaxRows
RECURSIVE FillOptions(_, _, _, _)
FillOptions(opts, base, j, count) ==
    IF j >= count THEN opts
    ELSE FillOptions(OptionListSet(opts, Slot("Option", base + j),
                                   j \div MaxColumns, j % MaxRows),
                     base, j + 1, count)

\* The OptionList objects before the buttons are added
OptLists(num_opts) ==
    LET opts_per_page == MaxRows * MaxColumns
        num_pages == (num_opts \div opts_per_page) + 1
    IN  [i \in 1..num_pages |->
            FillOptions(OptionList, (i - 1) * opts_per_page, 0,
                        Min(num_opts - (i - 1) * opts_per_page, opts_per_page))]

\* The Next, Prev and Cancel options of the OptionList at place i of n
AddButtons(opts, i, n) ==
    LET next_row == 0
        prev_row == next_row + 1
        cancel_row == MaxRows - 1
        last_col == MaxColumns - 1
        o1 == IF i < n THEN OptionListSet(opts, Slot("Next", i + 1), next_row, last_col)
              ELSE opts
        o2 == IF i > 1 THEN OptionListSet(o1, Slot("Prev", i - 1), prev_row, last_col)
              ELSE o1
    IN  OptionListSet(o2, Slot("Cancel", 0), cancel_row, last_col)

\* OptionList.generate_paged_list: the lists built; the first is returned
GeneratePagedList(num_opts) ==
    LET lists == OptLists(num_opts)
    IN  [i \in 1..Len(lists) |-> AddButtons(lists[i], i, Len(lists))]

\* No paged list has been generated
OptIdle ==
    /\ optInput = 0
    /\ optLists = <<>>
    /\ optShown = 0

\* A displayable is about to page a list of up to MaxOptions options
OptInit ==
    /\ optInput \in 0..MaxOptions
    /\ optLists = <<>>
    /\ optShown = 0

\* view.set_options(OptionList.generate_paged_list(options))
OptGenerate ==
    /\ optShown = 0
    /\ optLists' = GeneratePagedList(optInput)
    /\ optShown' = 1
    /\ UNCHANGED optInput
    /\ UNCHANGED notOpt

\* The button of a Next or Prev option at (row, col) is pressed:
\* UpdateOptionsEvent.apply shows the OptionList it was made with
OptPress(row, col) ==
    /\ optShown > 0
    /\ optLists[optShown][row][col].kind \in {"Next", "Prev"}
    /\ optShown' = optLists[optShown][row][col].id
    /\ UNCHANGED <<optInput, optLists>>
    /\ UNCHANGED notOpt

\* The button of a Cancel option is pressed: OptionListReturnEvent.apply has
\* the displayable shown again, with its own options
OptCancel(row, col) ==
    /\ optShown > 0
    /\ optLists[optShown][row][col].kind = "Cancel"
    /\ optLists' = <<>>
    /\ optShown' = 0
    /\ UNCHANGED optInput
    /\ UNCHANGED notOpt

OptNext ==
    \/ OptGenerate
    \/ \E row \in 0..(MaxRows - 1), col \in 0..(MaxColumns - 1) : OptPress(row, col)
    \/ \E row \in 0..(MaxRows - 1), col \in 0..(MaxColumns - 1) : OptCancel(row, col)

(***************************************************************************)
(*                          Specifications                                 *)
(***************************************************************************)

\* The attributes while another subsystem runs: PrimaryAttribute() objects
\* and a SecondaryAttribute tracking nothing
AttrIdle ==
    /\ prim = [p \in Prims |-> PrimaryAttribute(10, None)]
    /\ sec = [s \in Secs |-> SecondaryAttribute(0, None, <<>>, prim)]
    /\ attrCall = NoAttrCall
    /\ delivered = <<>>

InitAttr == AttrInit /\ ResInit /\ ViewInit /\ GameInit /\ OptIdle

SpecAttr == InitAttr /\ [][AttrNext]_vars

SpecSec == InitAttr /\ [][SecNext]_vars

SpecShow == InitAttr /\ [][ShowNext]_vars

SpecStat == InitAttr /\ [][StatNext]_vars

InitList == AttrListInit /\ ResInit /\ ViewInit /\ GameInit /\ OptIdle

SpecList == InitList /\ [][ListNext]_vars

InitRes == AttrIdle /\ ResInit /\ ViewInit /\ GameInit /\ OptIdle

SpecRes == InitRes /\ [][ResNext]_vars

SpecPkg == InitRes /\ [][PkgNext]_vars

SpecLoad == InitRes /\ [][LoadNext]_vars

SpecBuild == InitRes /\ [][BuildNext]_vars

InitView == AttrIdle /\ ResInit /\ ViewInit /\ GameInit /\ OptIdle

SpecView == InitView /\ [][ViewNext]_vars

InitRun == AttrIdle /\ ResInit /\ RunInit /\ GameInit /\ OptIdle

SpecRun == InitRun /\ [][RunNext]_vars

InitOpt == AttrIdle /\ ResInit /\ ViewInit /\ GameInit /\ OptInit

SpecOpt == InitOpt /\ [][OptNext]_vars

InitGame == AttrIdle /\ GameRegistry /\ GameViews /\ GameInit /\ OptIdle

SpecGame == InitGame /\ [][GameNext]_vars

(***************************************************************************)
(*                     Claims about the attributes                         *)
(***************************************************************************)

\* C1: after any sequence of level assignments to the tracked primaries and
\* to the secondary itself, the level a SecondaryAttribute reports is its own
\* base level plus the sum over its tracked pairs of amount x primary.level.
C1_SecondaryLevelIsBasePlusTracked ==
    \A s \in DOMAIN sec :
        sec[s].effective = sec[s].level + TrackedSum(sec[s].tracked, prim)

\* C1 witness: the test's ((7, attr_1), (3, attr_2)) with a base level above
\* zero, just after attr_1's level was raised by an assignment.
C1_Witness ==
    /\ attrCall.op = "set_level"
    /\ attrCall.attr = "attr_1"
    /\ prim["attr_1"].level = attrCall.oldLevel + 1
    /\ sec["attr"].tracked = <<<<7, "attr_1">>, <<3, "attr_2">>>>
    /\ sec["attr"].level = 1
    /\ sec["attr"].effective = 1 + 7 * prim["attr_1"].level + 3 * prim["attr_2"].level

\* An assignment of the number the attribute already holds
SameNumberAssigned ==
    \/ /\ attrCall.op = "set_level"
       /\ attrCall.arg = attrCall.oldLevel
    \/ /\ attrCall.op = "set_value"
       /\ attrCall.arg = attrCall.oldValue

\* C9: assigning a PrimaryAttribute's level or value the number it already
\* holds delivers no update call to any registered listener.
C9_NoNotifyOnSameNumber == SameNumberAssigned => delivered = <<>>

\* The update calls a notification owes: one per registration, in
\* registration order, each seeing the attribute as it now is
OwedDeliveries(p, msg) ==
    [i \in 1..Len(prim[p].listeners) |->
        Delivery(prim[p].listeners[i], p, msg, prim)]

C11_LevelClampedValueFollows ==
    /\ \A p \in DOMAIN prim : prim[p].level >= 0
    /\ attrCall.op = "set_level" =>
           LET a == prim[attrCall.attr]
           IN  /\ a.level = Max(attrCall.arg, 0)
               /\ a.value - a.level = attrCall.oldValue - attrCall.oldLevel

\* C11 witness: a negative number was assigned to the level of an attribute
\* whose value was not at its level; the level stopped at zero.
C11_Witness ==
    /\ attrCall.op = "set_level"
    /\ attrCall.arg < 0
    /\ attrCall.oldLevel > 0
    /\ attrCall.oldValue # attrCall.oldLevel
    /\ prim[attrCall.attr].level = 0
    /\ prim[attrCall.attr].value = attrCall.oldValue - attrCall.oldLevel

\* C12: assigning n to a SecondaryAttribute's level never takes its base
\* level below zero: the level reported afterwards is max(n, sum of the
\* tracked contributions); lowering the level of a secondary whose base level
\* is zero changes neither its level nor its value.
C12_SecondaryLevelFloor ==
    /\ \A s \in DOMAIN sec : sec[s].level >= 0
    /\ attrCall.op = "sec_set_level" =>
           LET s == sec[attrCall.attr]
               contributions == TrackedSum(s.tracked, prim)
           IN  /\ s.effective = Max(attrCall.arg, contributions)
               /\ (attrCall.oldLevel = contributions
                      /\ attrCall.arg < attrCall.oldLevel)
                      => /\ s.effective = attrCall.oldLevel
                         /\ s.value = attrCall.oldValue

\* C12 witness: the level of a secondary with base level zero and a value
\* below its level was lowered, and nothing moved.
C12_Witness ==
    /\ attrCall.op = "sec_set_level"
    /\ attrCall.arg < attrCall.oldLevel
    /\ attrCall.oldLevel = TrackedSum(sec[attrCall.attr].tracked, prim)
    /\ attrCall.oldLevel > 0
    /\ attrCall.oldValue # attrCall.oldLevel
    /\ sec[attrCall.attr].level = 0
    /\ sec[attrCall.attr].effective = attrCall.oldLevel
    /\ sec[attrCall.attr].value = attrCall.oldValue

\* C13: a level assignment to a tracked primary that raises a secondary's
\* level by d > 0 raises the secondary's value by d; one that lowers the
\* level leaves the value at min(old value, new level); an assignment to a
\* primary's value changes neither the level nor the value of a secondary.
C13_TrackedChangeMovesValue ==
    [][\A s \in Secs :
          LET d == sec'[s].effective - sec[s].effective
          IN  /\ attrCall'.op = "set_level" =>
                     /\ d > 0 => sec'[s].value = sec[s].value + d
                     /\ d < 0 => sec'[s].value = Min(sec[s].value, sec'[s].effective)
              /\ attrCall'.op = "set_value" => sec'[s] = sec[s]]_vars

\* C14: after any sequence of primary level changes the derived stats of an
\* AttributeList follow the formulas Player.calculate_secondaries states:
\* health = constitution x 3 + strength x 7, stamina = constitution x 7 +
\* agility x 3, mana = intelligence x 7 + wisdom x 3.
C14_DerivedStatsFollowFormulas ==
    /\ sec["health"].effective =
           prim["constitution"].level * 3 + prim["strength"].level * 7
    /\ sec["stamina"].effective =
           prim["constitution"].level * 7 + prim["agility"].level * 3
    /\ sec["mana"].effective =
           prim["intelligence"].level * 7 + prim["wisdom"].level * 3

\* The magnitude of n in decimal
StrAbs(n) == IF n < 0 THEN ToString(-n) ELSE ToString(n)

\* C22: an Attribute is shown by the sign of value - level: color is
\* ColorNormal when they are equal, ColorAbove when the value is greater,
\* ColorBelow when it is less; long_string is the plain value when they are
\* equal and otherwise the value followed by the signed difference in
\* brackets ("11 [+1]", "9 [-1]"); short_string is always the plain value.
C22_ShownBySignOfDifference ==
    attrCall.op \in {"color", "short_string", "long_string"} =>
        LET level == prim[attrCall.attr].level
            value == prim[attrCall.attr].value
        IN  /\ attrCall.op = "color" =>
                   /\ value = level => attrCall.ret = "black"
                   /\ value > level => attrCall.ret = "green"
                   /\ value < level => attrCall.ret = "red"
            /\ attrCall.op = "short_string" => attrCall.ret = ToString(value)
            /\ attrCall.op = "long_string" =>
                   /\ value = level => attrCall.ret = ToString(value)
                   /\ value > level =>
                          attrCall.ret = ToString(value) \o " [+"
                                             \o StrAbs(value - level) \o "]"
                   /\ value < level =>
                          attrCall.ret = ToString(value) \o " [-"
                                             \o StrAbs(value - level) \o "]"

\* long_string was read from an attribute whose value had been set above its
\* level
C22_Witness ==
    /\ attrCall.op = "long_string"
    /\ prim[attrCall.attr].value > prim[attrCall.attr].level
    /\ attrCall.ret = "1 [+1]"

\* C25: SecondaryAttribute.color yields a color in every reachable state,
\* also for a secondary created with the base level 0, and the color ranks
\* the ratio of the value to the level: ColorBuffed above 100%, ColorGood
\* above 75%, ColorOkay above 50%, ColorPoor above 25%, ColorHurt otherwise.
C25_SecondaryColorRanksRatio ==
    attrCall.op = "sec_color" =>
        LET level == sec[attrCall.attr].effective
            value == sec[attrCall.attr].value
        IN  /\ attrCall.raised = None
            /\ attrCall.ret \in {"cyan", "green", "yellow", "orange", "red"}
            /\ level > 0 =>
                   /\ attrCall.ret = "cyan" <=> value > level
                   /\ attrCall.ret = "green"
                          <=> (value <= level /\ 4 * value > 3 * level)
                   /\ attrCall.ret = "yellow"
                          <=> (4 * value <= 3 * level /\ 2 * value > level)
                   /\ attrCall.ret = "orange"
                          <=> (2 * value <= level /\ 4 * value > level)
                   /\ attrCall.ret = "red" <=> 4 * value <= level

(***************************************************************************)
(*                 Claims about the Resources collection                   *)
(***************************************************************************)

\* What merge owes the (type, id) pair (t, k): the resource held afterwards,
\* and whether a conflict was rejected
MergeRejects(pre, other, masters, t, k) ==
    /\ ResourcesGet(other, t, k) # None
    /\ ResourcesGet(pre, t, k) # None
    /\ \/ masters = MastersOmitted
       \/ objPkg[ResourcesGet(pre, t, k)] \notin masters

MergeOwes(pre, other, masters, t, k) ==
    IF ResourcesGet(other, t, k) = None THEN ResourcesGet(pre, t, k)
    ELSE IF ResourcesGet(pre, t, k) = None THEN ResourcesGet(other, t, k)
    ELSE IF MergeRejects(pre, other, masters, t, k) THEN ResourcesGet(pre, t, k)
    ELSE ResourcesGet(other, t, k)

\* C2: merge(other, masters) adds each resource of other whose (type, id)
\* self does not hold, replaces one self holds whose package() is in masters,
\* and otherwise keeps self's resource and reports the conflict; it returns
\* None exactly when no conflict was rejected, and with masters omitted it
\* replaces nothing.
C2_MergeWithMasters ==
    resCall.op = "merge" =>
        LET pre == resCall.pre
            post == resMap[resCall.coll]
            other == resMap[resCall.item]
            masters == resCall.masters
        IN  /\ \A t \in Types, k \in Ids :
                 /\ ResourcesGet(post, t, k) = MergeOwes(pre, other, masters, t, k)
                 /\ MergeRejects(pre, other, masters, t, k)
                        <=> \E i \in 1..Len(resCall.errors) :
                                /\ resCall.errors[i].t_id = t
                                /\ resCall.errors[i].key = k
            /\ resCall.ret = None
                   <=> ~ \E t \in Types, k \in Ids :
                             MergeRejects(pre, other, masters, t, k)
            /\ masters = MastersOmitted
                   => \A t \in Types, k \in Ids :
                          ResourcesGet(pre, t, k) # None
                              => ResourcesGet(post, t, k) = ResourcesGet(pre, t, k)

\* C2 witness: one merge that replaced a master's Location by another
\* object and rejected a conflict over a Dialog.
C2_Witness ==
    /\ resCall.op = "merge"
    /\ resCall.masters = {"base"}
    /\ ResourcesGet(resCall.pre, TypeLocation, "a") = "loc_a"
    /\ objPkg["loc_a"] = "base"
    /\ ResourcesGet(resMap["game"], TypeLocation, "a") = "loc_a2"
    /\ resCall.ret # None
    /\ Len(resCall.errors) = 1
    /\ resCall.errors[1].t_id = TypeDialog

\* C4: add of a resource whose (type, id) is present raises
\* ResourceAlreadyDefinedError and leaves the collection unchanged; otherwise
\* get(type, id) then returns that resource. Every other (type, id), the same
\* id under another type among them, is as before: one never added is None.
C4_AddRaisesOrStores ==
    resCall.op = "add" =>
        LET pre == resCall.pre
            post == resMap[resCall.coll]
            item == resCall.item
        IN  /\ IF ResourcesGet(pre, TypeOf(item), IdOf(item)) # None
               THEN /\ resCall.raised = "ResourceAlreadyDefinedError"
                    /\ post = pre
               ELSE /\ resCall.raised = None
                    /\ ResourcesGet(post, TypeOf(item), IdOf(item)) = item
            /\ \A t \in Types, k \in Ids :
                   <<t, k>> # <<TypeOf(item), IdOf(item)>>
                       => ResourcesGet(post, t, k) = ResourcesGet(pre, t, k)

\* C4 witness: add of a second Location "a" was refused while the Dialog "a"
\* is held beside the first.
C4_Witness ==
    /\ resCall.op = "add"
    /\ resCall.item = "loc_a2"
    /\ resCall.raised = "ResourceAlreadyDefinedError"
    /\ ResourcesGet(resMap[resCall.coll], TypeLocation, "a") = "loc_a"
    /\ ResourcesGet(resMap[resCall.coll], TypeDialog, "a") = "dlg_a"
    /\ ResourcesGet(resMap[resCall.coll], TypeLocation, "b") = None

\* C15: after Package.load completes, every resource in the package's
\* Resources collection reports the package's name from Resource.package().
C15_LoadedResourcesReportPackage ==
    resCall.op = "load" =>
        \A t \in Types : \A i \in 1..Len(resMap["pkg"][t]) :
            objPkg[resMap["pkg"][t][i].value] = pkgName

(***************************************************************************)
(*                     Claims about the ViewManager                        *)
(***************************************************************************)

\* One life-cycle call, as the log of an operation holds it
LifeCall(cb, v) == [cb |-> cb, view |-> v, arg |-> 0]

\* The views pop(num) takes from a stack of depth n
Removed(num, n) == IF num <= 0 THEN 0 ELSE Min(num, n)

\* C5: pop(num) on a stack of depth n removes exactly min(num, n) views from
\* the top and calls stop() once on each, top first; if views remain it calls
\* resume() once, on the new top, and on no other view; if none remain and
\* quit_if_empty is set it calls Game.quit(0). With num <= 0 or an empty stack
\* nothing changes and nothing is called.
C5_PopStopsAndResumes ==
    viewCall.op \in {"pop", "clear"} =>
        LET pre == viewCall.pre
            n == Len(pre)
            k == Removed(viewCall.num, n)
        IN  /\ viewStack = SubSeq(pre, 1, n - k)
            /\ viewCall.calls =
                   [i \in 1..k |-> LifeCall("stop", pre[n + 1 - i])]
                   \o (IF k = 0 THEN <<>>
                       ELSE IF n - k > 0 THEN <<LifeCall("resume", pre[n - k])>>
                       ELSE IF viewCall.quit_if_empty
                            THEN <<[cb |-> "quit", view |-> None, arg |-> 0]>>
                            ELSE <<>>)

\* C5 witness: pop(2) took two views off a stack of three and resumed the
\* one left.
C5_Witness ==
    /\ viewCall.op = "pop"
    /\ viewCall.num = 2
    /\ Len(viewCall.pre) = 3
    /\ Len(viewStack) = 1
    /\ Len(viewCall.calls) = 3
    /\ viewCall.calls[3].cb = "resume"

\* C6: push(name) with a registered name pauses the current top view (if
\* any), then puts the named view on top and starts it: the depth grows by 1
\* and the entries below are as before. With an unregistered name an error is
\* logged, the stack is unchanged and neither pause nor start is called.
C6_PushPausesThenStarts ==
    viewCall.op = "push" =>
        LET pre == viewCall.pre
            n == Len(pre)
        IN  IF viewCall.name \in ViewNames
            THEN /\ viewStack = Append(pre, viewCall.name)
                 /\ viewCall.calls =
                        (IF n > 0 THEN <<LifeCall("pause", pre[n])>> ELSE <<>>)
                        \o <<LifeCall("start", viewCall.name)>>
            ELSE /\ viewStack = pre
                 /\ viewCall.calls =
                        <<[cb |-> "log.error", view |-> viewCall.name, arg |-> 0]>>

\* C6 witness: a view was pushed over another one.
C6_Witness ==
    /\ viewCall.op = "push"
    /\ viewCall.pre = <<"MainMenu">>
    /\ viewStack = <<"MainMenu", "NewGame">>
    /\ viewCall.calls = <<LifeCall("pause", "MainMenu"), LifeCall("start", "NewGame")>>

\* C7: swap(name) with a registered name stops and removes the current top
\* view, then puts the named view on top and starts it; the view below gets
\* no call, and the depth of a non-empty stack is unchanged. With an
\* unregistered name no view is stopped and the stack is unchanged.
C7_SwapStopsThenStarts ==
    viewCall.op = "swap" =>
        LET pre == viewCall.pre
            n == Len(pre)
        IN  IF viewCall.name \in ViewNames
            THEN /\ viewStack = (IF n > 0 THEN SubSeq(pre, 1, n - 1) ELSE <<>>)
                                \o <<viewCall.name>>
                 /\ n > 0 => Len(viewStack) = n
                 /\ viewCall.calls =
                        (IF n > 0 THEN <<LifeCall("stop", pre[n])>> ELSE <<>>)
                        \o <<LifeCall("start", viewCall.name)>>
            ELSE /\ viewStack = pre
                 /\ viewCall.calls =
                        <<[cb |-> "log.error", view |-> viewCall.name, arg |-> 0]>>

\* C7 witness: NewGame over MainMenu was swapped for GameView.
C7_Witness ==
    /\ viewCall.op = "swap"
    /\ viewCall.pre = <<"MainMenu", "NewGame">>
    /\ viewStack = <<"MainMenu", "GameView">>
    /\ viewLife["MainMenu"] = "paused"

\* C8: whatever the sequence of push, pop and swap, the same view pushed more
\* than once included, resume() is called only on a view that is paused and
\* pause() only on the view that is the active top of the stack.
C8_ResumeOnlyPausedPauseOnlyActive == viewCall.misuse = <<>>

\* C18: Next pressed in the NewGame view with a non-empty name swaps NewGame
\* for GameView: NewGame is no longer on top of the stack, the depth is
\* unchanged and the views beneath are as before, so popping GameView exposes
\* the view that was beneath NewGame. With an empty name nothing changes.
C18_NewGameSwapsForGameView ==
    viewCall.op = "action_next" =>
        LET pre == viewCall.pre
            n == Len(pre)
        IN  IF viewCall.name = ""
            THEN viewStack = pre /\ viewCall.calls = <<>>
            ELSE /\ viewStack = SubSeq(pre, 1, n - 1) \o <<"GameView">>
                 /\ Len(viewStack) = n

\* The Game.quit calls that found a root window
ActingQuits == SelectSeq(quitLog, LAMBDA c : c.had_root)

\* C19: Game.run returns the value passed to the first call of Game.quit
\* that found a root window: later calls neither change the return value nor
\* quit the window again, and a quit while no root window exists is ignored.
C19_RunReturnsFirstQuitValue ==
    /\ Len(ActingQuits) <= 1
    /\ returnValue = IF ActingQuits = <<>> THEN 0 ELSE ActingQuits[1].arg
    /\ gamePhase = "returned" =>
           /\ ActingQuits # <<>>
           /\ runResult = ActingQuits[1].arg
    /\ viewCall.op = "quit" /\ ~quitLog[Len(quitLog)].had_root
           => viewCall.calls = <<>>

\* C19 witness: run has returned 2, the value of the first quit that found
\* the window; a quit before run and a later quit(1) were ignored.
C19_Witness ==
    /\ gamePhase = "returned"
    /\ runResult = 2
    /\ Len(quitLog) = 3
    /\ quitLog[1] = [arg |-> 1, had_root |-> FALSE]
    /\ quitLog[2] = [arg |-> 2, had_root |-> TRUE]
    /\ quitLog[3] = [arg |-> 1, had_root |-> FALSE]

(***************************************************************************)
(*                       Claims about GameData                             *)
(***************************************************************************)

\* The displayable last handed to view.display by the outermost call
LastDisplayed(trace) ==
    LET shown == {i \in 1..Len(trace) : trace[i].ev = "display"}
    IN  IF shown = {} THEN None
        ELSE trace[CHOOSE i \in shown : \A j \in shown : j <= i].obj

\* The displayable the state designates
Designated(gd) ==
    IF gd.state = StateLocation THEN gd.location
    ELSE IF gd.state = StateDialog THEN gd.dialog
    ELSE None

\* An outermost set_location or set_dialog with an id of the registry has
\* returned, and a GameView is the current view
DisplayableSetUnderGameView ==
    /\ gameCall.op \in {"set_location", "set_dialog"}
    /\ gameCall.instance # None
    /\ gameFrames = <<>>
    /\ ViewCurrent(viewStack) # None
    /\ IsGameView(ViewCurrent(viewStack))

\* C3: after set_location(id) or set_dialog(id) with an id of the registry
\* returns while a GameView is the current view, the displayable last passed
\* to display() is the one the final state designates, also when the
\* location's start hook called set_location or set_dialog for another
\* resource: the outer call does not display the superseded location.
C3_LastDisplayedIsDesignated ==
    DisplayableSetUnderGameView =>
        /\ gameData.state \in {StateLocation, StateDialog}
        /\ LastDisplayed(gameCall.trace) # None
        /\ LastDisplayed(gameCall.trace) = Designated(gameData)

\* C3 witness: set_location("a") has returned after the start hook of
\* Location "a" went to Location "b", whose own hook opened the Dialog "a".
C3_Witness ==
    /\ DisplayableSetUnderGameView
    /\ gameCall.op = "set_location"
    /\ gameCall.instance = "loc_a"
    /\ gameData.location = "loc_b"
    /\ gameData.state = StateDialog
    /\ gameCall.trace = <<Event("start", "loc_a"), Event("start", "loc_b"),
                          Event("display", "dlg_a")>>

\* The trace has event (ev, obj) before its position i
Before(trace, i, ev, obj) ==
    \E j \in 1..(i - 1) : trace[j] = Event(ev, obj)

\* C16: whenever GameData makes a Displayable current, by set_location or by
\* set_dialog, the displayable's start(game) hook is invoked before the
\* displayable is passed to the view's display().
C16_StartBeforeDisplay ==
    \A i \in 1..Len(gameCall.trace) :
        gameCall.trace[i].ev = "display"
            => Before(gameCall.trace, i, "start", gameCall.trace[i].obj)

\* C17: when resume_display, or stop_fight at the end of a fight, shows the
\* current displayable again, the displayable's resume(game) hook is invoked.
C17_ResumeHookOnRedisplay ==
    gameCall.op \in {"resume_display", "stop_fight"} =>
        \A i \in 1..Len(gameCall.trace) :
            gameCall.trace[i].ev = "display"
                => \E j \in 1..Len(gameCall.trace) :
                       gameCall.trace[j] = Event("resume", gameCall.trace[i].obj)

\* The step left the game data and the hooks under way as they were, and all
\* it did was to log an error about the id
OnlyLogged(id, before) ==
    /\ gameData' = gameData
    /\ gameFrames' = gameFrames
    /\ gameCall'.raised = None
    /\ gameCall'.trace = Append(before, Event("log.error", id))

\* C23: set_location or set_dialog with an id that the registry does not
\* hold logs an error and leaves state, location and dialog as they were; it
\* calls no start hook and displays nothing.  This holds for a call from an
\* event handler and for a call made by a start hook that is running.
C23_UnknownIdOnlyLogs ==
    [][\A id \in Ids \cup {NoSuchId} :
           /\ ResourcesGet(resMap["game"], TypeLocation, id) = None =>
                  /\ GameSetLocation(id) => OnlyLogged(id, <<>>)
                  /\ HookSetLocation(id) => OnlyLogged(id, gameCall.trace)
           /\ ResourcesGet(resMap["game"], TypeDialog, id) = None =>
                  /\ GameSetDialog(id) => OnlyLogged(id, <<>>)
                  /\ HookSetDialog(id) => OnlyLogged(id, gameCall.trace)]_vars

\* set_dialog was called with an id no Dialog has while a Location was
\* current, and the Location stayed current
C23_Witness ==
    /\ gameCall.op = "set_dialog"
    /\ gameCall.instance = None
    /\ gameCall.trace = <<Event("log.error", gameCall.id)>>
    /\ gameData.state = StateLocation
    /\ gameData.location # None
    /\ gameData.dialog # None

\* C26: in every state of GameData that start, set_location, set_dialog,
\* set_fight and stop_fight lead to, the state tag has its object: a
\* Location is set in the state Location, a Dialog in the state Dialog and a
\* monster in the state Fight.
C26_StateTagHasItsObject ==
    /\ gameData.state = StateLocation => gameData.location # None
    /\ gameData.state = StateDialog => gameData.dialog # None
    /\ gameData.state = StateFight => gameData.monster # None

(***************************************************************************)
(*                     Claims about the OptionList                         *)
(***************************************************************************)

\* The slots of the lists built that hold slot c
SlotsOf(c) ==
    {<<i, row, col>> \in (1..Len(optLists)) \X (0..(MaxRows - 1))
                                            \X (0..(MaxColumns - 1)) :
        optLists[i][row][col] = c}

\* C20: generate_paged_list(options) returns the first of a chain of pages
\* where every option given has its own slot on exactly one page, every page
\* but the last has a Next option to the following page, every page but the
\* first a Prev option to the preceding page, and every page a Cancel option.
C20_PagedListHoldsEveryOption ==
    optLists # <<>> =>
        /\ \A k \in 0..(optInput - 1) : Cardinality(SlotsOf(Slot("Option", k))) = 1
        /\ \A i \in 1..Len(optLists) :
               /\ i < Len(optLists)
                      => \E row \in 0..(MaxRows - 1), col \in 0..(MaxColumns - 1) :
                             optLists[i][row][col] = Slot("Next", i + 1)
               /\ i > 1
                      => \E row \in 0..(MaxRows - 1), col \in 0..(MaxColumns - 1) :
                             optLists[i][row][col] = Slot("Prev", i - 1)
               /\ \E row \in 0..(MaxRows - 1), col \in 0..(MaxColumns - 1) :
                      optLists[i][row][col] = Slot("Cancel", 0)

(***************************************************************************)
(*                   Claims about the package list                         *)
(***************************************************************************)

\* The names the scripts of a package define, file after file
RECURSIVE ItemsOf(_)
ItemsOf(scripts) ==
    IF scripts = <<>> THEN <<>>
    ELSE Head(scripts).items \o ItemsOf(Tail(scripts))

\* Item q of the items defines a resource id that an earlier item defined
Redefines(items, q) ==
    /\ items[q].obj # Raises
    /\ \E p \in 1..(q - 1) :
           /\ items[p].obj # Raises
           /\ TypeOf(items[p].obj) = TypeOf(items[q].obj)
           /\ IdOf(items[p].obj) = IdOf(items[q].obj)

\* Something in the package fails while it is loaded
FileHasFailure(file) ==
    \/ \E k \in 1..Len(file.scripts) :
           file.scripts[k].fails \/ ~file.scripts[k].author_is_str
    \/ \E q \in 1..Len(ItemsOf(file.scripts)) :
           \/ ItemsOf(file.scripts)[q].obj = Raises
           \/ Redefines(ItemsOf(file.scripts), q)

\* The only failures of the package are those of its Resource classes
OnlyClassesFail(file) ==
    /\ \A k \in 1..Len(file.scripts) : ~file.scripts[k].fails
    /\ \A q \in 1..Len(ItemsOf(file.scripts)) :
           Redefines(ItemsOf(file.scripts), q)
               => ItemsOf(file.scripts)[q].kind = "class"

\* C21: no exception raised while a package script is loaded (the import
\* fails, a Resource class cannot be instantiated, a resource id is defined
\* twice) leaves Package.load; each is counted by the PackageContext; a
\* failing Resource class does not keep the remaining items of the file from
\* being collected; and _load_packages lists a package exactly when its load
\* counted no error.
C21_LoadErrorsCountedNotRaised ==
    loadCall.op = "load_packages" =>
        /\ loadCall.raised = None
        /\ Len(loadCall.log) = Len(loadCall.files)
        /\ \A i \in 1..Len(loadCall.log) :
               LET file == loadCall.files[i]
                   entry == loadCall.log[i]
                   items == ItemsOf(file.scripts)
               IN  ~file.hidden =>
                       /\ entry.raised = None
                       /\ (entry.error_count > 0) <=> FileHasFailure(file)
                       /\ OnlyClassesFail(file) =>
                              \A q \in 1..Len(items) :
                                  items[q].obj # Raises =>
                                      DictHas(entry.resources[TypeOf(items[q].obj)],
                                              IdOf(items[q].obj))
                       /\ (entry.error_count = 0)
                              <=> \E j \in 1..Len(packages) :
                                      packages[j].name = file.name

\* The resource the registry is to hold under (t, k) when the packages from
\* position i on are merged over cur: an included package that defines the
\* id sets it when nothing is held, and replaces what is held only if the
\* package of the held resource is among its dependencies
RECURSIVE OwedFrom(_, _, _, _)
OwedFrom(i, t, k, cur) ==
    IF i > Len(packages) THEN cur
    ELSE LET pkg == packages[i]
             new == DictGet(pkg.resources[t], k)
         IN  IF ~pkg.include \/ new = None THEN OwedFrom(i + 1, t, k, cur)
             ELSE IF cur = None THEN OwedFrom(i + 1, t, k, new)
             ELSE IF \E j \in 1..Len(pkg.dependencies) :
                         pkg.dependencies[j] = objPkg[cur]
             THEN OwedFrom(i + 1, t, k, new)
             ELSE OwedFrom(i + 1, t, k, cur)

\* C24: build_resources rebuilds the registry from scratch: afterwards it
\* holds resources of included packages only, merged in the order of the
\* package list with each package's dependencies as the masters; it returns
\* the number of included packages; what an earlier build left is gone; and
\* a second build in a row leaves the same registry.
C24_BuildFromScratch ==
    loadCall.op = "build_resources" =>
        /\ loadCall.ret = Cardinality({i \in 1..Len(packages) : packages[i].include})
        /\ \A t \in Types, k \in Ids :
               ResourcesGet(resMap["game"], t, k) = OwedFrom(1, t, k, None)
        /\ \A t \in Types : \A i \in 1..Len(resMap["game"][t]) :
               \E j \in 1..Len(packages) :
                   /\ packages[j].include
                   /\ DictGet(packages[j].resources[t], resMap["game"][t][i].key)
                          = resMap["game"][t][i].value
        /\ BuildResources(resMap["game"], packages, objPkg).map = resMap["game"]

\* A build with one of two packages included dropped a resource that the
\* build before it had put into the registry
C24_Witness ==
    /\ loadCall.op = "build_resources"
    /\ Len(packages) = 2
    /\ loadCall.ret = 1
    /\ \E t \in Types, k \in Ids :
           /\ ResourcesGet(loadCall.pre, t, k) # None
           /\ ResourcesGet(resMap["game"], t, k) = None

=============================================================================
